---- MODULE Spec2Model ----
(***************************************************************************)
(* GeminiApp (src/src/GeminiApp.js): the request / upload / retry client.  *)
(*                                                                         *)
(* The client is single-threaded: one entry point runs at a time, and      *)
(* every network call blocks.  A state is the position of the running      *)
(* entry point (pc), its locals (attempt, lastError, ...), the events it   *)
(* has produced so far (trace: every UrlFetchApp.fetch with the answer it  *)
(* got, every Utilities.sleep with its duration) and its outcome (result). *)
(* One action is one UrlFetchApp.fetch together with all the code the      *)
(* handler runs up to its next fetch, its return or its throw.             *)
(*                                                                         *)
(* Spec is the transport and the file manager (retry loops, upload,        *)
(* delete).  SpecPrompt is prompt / promptWithFile: the resolution of the  *)
(* file argument into parts by _prepareFilePart, one element per step,     *)
(* and _formatResponse on the response; there a step records the calls it  *)
(* makes to the document store and the upload manager (calls), whose       *)
(* requests are those of Spec.                                             *)
(***************************************************************************)
EXTENDS Integers, Sequences, FiniteSets, TLC

VARIABLES
    pc,         \* where the running entry point stands; "idle" between calls
    op,         \* the entry point that is running
    attempt,    \* loop counter of the running retry loop
    lastError,  \* lastError of the running retry loop
    trace,      \* fetches and sleeps of the running call, in order
    result,     \* outcome of the call: nothing yet, a return value, a throw
    loopResult, \* outcome of the call's retry loop: a response, a throw
    remote,     \* ids of the files the remote Files API currently holds
    uploadUrl,  \* X-Goog-Upload-URL obtained by the start request
    names,      \* fileNames argument of deleteFile / deleteFiles
    idx,        \* loop index i of deleteFiles
    success,    \* results.success of deleteFiles
    failed,     \* results.failed of deleteFiles
    step,       \* where a running prompt / promptWithFile stands
    call,       \* its arguments: the file argument and options
    index,      \* index of the forEach over the file array
    parts,      \* the file parts resolved so far, in order
    calls,      \* calls to the document store, the URL fetcher and the
                \* upload manager made by the running prompt, in order
    reply,      \* what _makeRequest returned to the running prompt
    outcome,    \* outcome of the prompt: a return value or a throw
    heap,       \* the JavaScript arrays that hold turns, by identity
    chat,       \* the chat sessions: this.history (an array of the heap),
                \* this.systemInstruction, and the outcomes of its sends
    held,       \* the arrays the caller holds a reference to
    cur,        \* the chat or prompt operation in flight, if any
    request,    \* the request handed to _makeRequest by that operation
    chatOutcome,\* outcome of the last chat or prompt operation
    jobQueue,   \* script property JOB_QUEUE
    runningJobs,\* script property RUNNING_JOBS
    failedJobs, \* script property FAILED_JOBS
    maxConcurrentJobs, \* script property MAX_CONCURRENT_JOBS, 0 when unset
    trigger,    \* whether the time-based trigger of processJobs exists
    exec,       \* the executions of processJobs: position and locals
    added,      \* how many jobs were added so far
    runs,       \* how often the handler of each job returned, and failed
    addOutcome  \* outcome of the last call of addJob or addJobs

vars == <<pc, op, attempt, lastError, trace, result, loopResult, remote, uploadUrl,
          names, idx, success, failed,
          step, call, index, parts, calls, reply, outcome,
          heap, chat, held, cur, request, chatOutcome,
          jobQueue, runningJobs, failedJobs, maxConcurrentJobs, trigger,
          exec, added, runs, addOutcome>>

\* The state of the transport and file-manager entry points.
clientVars == <<pc, op, attempt, lastError, trace, result, loopResult, remote,
                uploadUrl, names, idx, success, failed>>

\* The state of the prompt entry points (part resolution and formatting).
promptVars == <<step, call, index, parts, calls, reply, outcome>>

\* The state of the chat sessions.
chatVars == <<heap, chat, held, cur, request, chatOutcome>>

\* The state of the job queue.
jobVars == <<jobQueue, runningJobs, failedJobs, maxConcurrentJobs, trigger,
             exec, added, runs, addOutcome>>

callVars == <<names, idx, success, failed, uploadUrl>>

(***************************************************************************)
(* Bounds of the model.                                                    *)
(***************************************************************************)
MaxNames == 3

(***************************************************************************)
(* Program constants.                                                      *)
(***************************************************************************)
maxRetries == 5

(***************************************************************************)
(* Values.                                                                 *)
(***************************************************************************)
\* Response bodies: a JSON document {"error":{"message":..}}, a JSON document
\* without error.message, and text that JSON.parse rejects.
Bodies == {"errjson", "okjson", "text"}

IsJson(body) == body \in {"errjson", "okjson"}

\* The value of the `response` member of a GeminiAppApiError, or a value parsed
\* from a body: how it was made, and from which body.
Payload(form, body) == [form |-> form, of |-> body]

NullPayload == Payload("null", "")

\* One segment of an error message: a template and what it interpolates.
Seg(tag, code, detail) == [tag |-> tag, code |-> code, detail |-> detail]

\* class GeminiAppApiError(message, statusCode, response)
GeminiAppApiError(message, statusCode, response) ==
    [name |-> "GeminiAppApiError", message |-> message,
     statusCode |-> statusCode, response |-> response]

\* class GeminiAppValidationError(message): no statusCode, no response
GeminiAppValidationError(message) ==
    [name |-> "GeminiAppValidationError", message |-> message,
     statusCode |-> -1, response |-> Payload("undefined", "")]

\* An exception that is not one of the library's classes (a transport
\* exception of UrlFetchApp, a SyntaxError of JSON.parse, a DriveApp error).
JsError(name, detail) ==
    [name |-> name, message |-> <<Seg(name, 0, detail)>>,
     statusCode |-> -1, response |-> Payload("undefined", "")]

NoError ==
    [name |-> "none", message |-> <<>>, statusCode |-> -1,
     response |-> Payload("undefined", "")]

\* What one UrlFetchApp.fetch gives: an HTTP response (status, body and the
\* X-Goog-Upload-URL header, "" when absent) or a thrown transport exception.
Http(status, body, header) ==
    [kind |-> "http", status |-> status, body |-> body, header |-> header]

ConnectionFailure ==
    [kind |-> "exception", status |-> 0, body |-> "timeout", header |-> ""]

NoResponse == [kind |-> "none", status |-> 0, body |-> "", header |-> ""]

\* Ids of files of the remote Files API.
Ids == {"a", "b"}

Url(ep, id) == [ep |-> ep, id |-> id]

Fetch(url, o) == [e |-> "fetch", url |-> url, resp |-> o, ms |-> 0]

Sleep(ms) == [e |-> "sleep", url |-> Url("", ""), resp |-> NoResponse, ms |-> ms]

\* The outcome of an entry point: what it returned, or the error its caller
\* catches (error) and the error as it was first thrown inside (cause).
NoResult ==
    [kind |-> "none", value |-> [t |-> "none"], error |-> NoError, cause |-> NoError]

Return(v) ==
    [kind |-> "return", value |-> v, error |-> NoError, cause |-> NoError]

Throw(err) ==
    [kind |-> "throw", value |-> [t |-> "none"], error |-> err, cause |-> err]

\* The outcome of a retry loop: the response it returned, or what it threw.
NoLoopResult == [kind |-> "none", resp |-> NoResponse, error |-> NoError]

LoopReturn(o) == [kind |-> "return", resp |-> o, error |-> NoError]

LoopThrow(err) == [kind |-> "throw", resp |-> NoResponse, error |-> err]

(***************************************************************************)
(* The remote service as the retry loops see it: any of these answers to   *)
(* any attempt.                                                            *)
(***************************************************************************)
Outcomes ==
    { Http(200, "okjson", ""), Http(200, "text", ""), Http(204, "okjson", ""),
      Http(404, "errjson", ""), Http(404, "text", ""), Http(429, "errjson", ""),
      Http(500, "text", ""), Http(503, "errjson", ""), ConnectionFailure }

(***************************************************************************)
(* Helpers of both retry loops.                                            *)
(***************************************************************************)
RECURSIVE Pow2(_)
Pow2(k) == IF k = 0 THEN 1 ELSE 2 * Pow2(k - 1)

\* Mutant of LoopContinues: attempt <= maxRetries.
LoopContinuesOffByOne(k) == k <= maxRetries

\* for (let attempt = 0; attempt < maxRetries; attempt++): whether the loop
\* runs an iteration with the counter at k.
LoopContinues(k) == k < maxRetries

\* Mutant of BackoffDelay: a linear delay, (attempt + 1) * 1000.
BackoffDelayLinear(k) == (k + 1) * 1000

\* const delay = Math.pow(2, attempt) * 1000;
BackoffDelay(k) == Pow2(k) * 1000

\* Mutant of IsRetryable: every error status is retried.
IsRetryableAnyError(statusCode) == statusCode >= 400

\* Mutant of IsRetryable: rate limiting (429) is not retried.
IsRetryableServerOnly(statusCode) == statusCode >= 500

\* if (statusCode === 429 || statusCode >= 500)
IsRetryable(statusCode) == statusCode = 429 \/ statusCode >= 500

\* try { errorData = JSON.parse(responseText) }
\* catch (e) { errorData = { error: { message: responseText } } }
ErrorData(body) ==
    IF IsJson(body) THEN Payload("parsed", body) ELSE Payload("wrapped", body)

\* errorData.error?.message || 'Unknown error'
ErrorMessage(errorData) ==
    CASE errorData.form = "wrapped" -> errorData.of
      [] errorData.of = "errjson"   -> "error.message"
      [] OTHER                      -> "Unknown error"

(***************************************************************************)
(* _GeminiApp._makeRequest: the retry loop of the generate path.           *)
(***************************************************************************)
\* What one iteration of the loop does with the answer of its fetch.
makeRequestBranch(o) ==
    CASE o.kind = "exception"                  -> "network"
      [] o.status = 200 /\ IsJson(o.body)      -> "return"
      [] o.status = 200                        -> "network"  \* JSON.parse throws
      [] IsRetryable(o.status)                 -> "retry"
      [] OTHER                                 -> "throw"

\* lastError as the iteration leaves it.
makeRequestLastError(o) ==
    CASE o.kind = "exception" -> JsError("Error", o.body)
      [] o.status = 200       -> JsError("SyntaxError", o.body)
      [] OTHER ->
           GeminiAppApiError(
               <<Seg("API request failed", o.status,
                     ErrorMessage(ErrorData(o.body)))>>,
               o.status, ErrorData(o.body))

\* throw new GeminiAppApiError(`API request failed (...). Please check ...`)
makeRequestNonRetryable(o) ==
    GeminiAppApiError(
        <<Seg("API request failed", o.status, ErrorMessage(ErrorData(o.body))),
          Seg("Please check your request parameters and API key", 0, "")>>,
        o.status, ErrorData(o.body))

\* throw new GeminiAppApiError(`Request failed after ${maxRetries} retries: ...`)
makeRequestExhausted(last) ==
    GeminiAppApiError(
        <<Seg("Request failed after retries", maxRetries, "")>>
            \o (IF last.message = <<>> THEN <<Seg("Unknown error", 0, "")>>
                ELSE last.message)
            \o <<Seg("This could be due to rate limits or service outages", 0, "")>>,
        0, NullPayload)

GenerateUrl == Url("generateContent", "")

(***************************************************************************)
(* Values of the prompt entry points.                                      *)
(***************************************************************************)
\* A MIME type argument as JavaScript sees it: undefined, null, a string, or
\* an array whose entries are strings and nulls ("null" stands for null).
MimeValue(form, v) == [form |-> form, v |-> v]

Undefined == MimeValue("undefined", <<>>)

Null == MimeValue("null", <<>>)

Str(s) == MimeValue("string", <<s>>)

Arr(entries) == MimeValue("array", entries)

\* JavaScript truthiness of such a value: a non-empty string and an array
\* (even an empty one) are truthy, undefined and null are not.
Truthy(m) == m.form \in {"string", "array"}

\* A fileUri: given by the caller, or that of the n-th file uploaded by the
\* running call.
Uri(src, n) == [src |-> src, n |-> n]

NoUri == Uri("none", 0)

\* A part of the request: {inlineData: {mimeType, data}} or
\* {fileData: {mimeType, fileUri}}; from is the index of the input element.
Part(t, mimeType, uri, from) ==
    [t |-> t, mimeType |-> mimeType, uri |-> uri, from |-> from]

\* One call to a collaborator: the document store (DriveApp.getFileById,
\* getBlob, getAs), UrlFetchApp.fetch of a source URL, the upload manager
\* (_uploadBytesSimple, with the MIME type it is given), _makeRequest.
Called(c, at, mimeType) == [c |-> c, at |-> at, mimeType |-> mimeType]

NoCall ==
    [entry |-> "none", isArray |-> FALSE, files |-> <<>>,
     mimeType |-> Undefined, schema |-> FALSE]

NoReply == [blockReason |-> "", has |-> FALSE, candidates |-> <<>>]

\* No call of a prompt entry point is running.
PromptIdle ==
    /\ step = "idle"
    /\ call = NoCall
    /\ index = 0
    /\ parts = <<>>
    /\ calls = <<>>
    /\ reply = NoReply
    /\ outcome = NoResult

(***************************************************************************)
(* Values of the chat sessions.                                            *)
(***************************************************************************)
MaxSends == 2

Sessions == {1, 2}

\* The arrays of the heap: one the caller made and may pass as
\* options.history, and the one `options.history || []` makes for a session.
GivenArray == 0

OwnArray(s) == s

ArrayIds == {GivenArray} \cup {OwnArray(s) : s \in Sessions}

\* A turn: {role, parts}; role "" is a turn without a role member.
Turn(role, turnParts) == [role |-> role, parts |-> turnParts]

\* options of a send or a prompt: schema (given or not), responseMimeType and
\* model ("" when the caller gives none).
SendOptions ==
    [schema : BOOLEAN, responseMimeType : {"", "text/x.enum"},
     model : {"", "gemini-2.5-pro"}]

\* The request: contents, systemInstruction ("" when the member is absent),
\* generationConfig.responseSchema / .responseMimeType ("" when absent), and
\* the model argument of _makeRequest ("" when absent: this.model is used).
Request(contents, systemInstruction, responseSchema, responseMimeType, model) ==
    [contents |-> contents, systemInstruction |-> systemInstruction,
     responseSchema |-> responseSchema, responseMimeType |-> responseMimeType,
     model |-> model]

NoRequest == Request(<<>>, "", "", "", "")

NoSession ==
    [started |-> FALSE, history |-> GivenArray, systemInstruction |-> "",
     sent |-> <<>>]

\* The operation in flight: its entry point, session and options, what the
\* resolution of each of its file inputs gave, and the request bodies its
\* attempts have sent.
NoOperation ==
    [entry |-> "none", session |-> 0,
     options |-> [schema |-> FALSE, responseMimeType |-> "", model |-> ""],
     inputs |-> <<>>, payloads |-> <<>>]

\* No chat session exists; the caller holds the array it made.
ChatIdle ==
    /\ heap = [a \in ArrayIds |-> <<>>]
    /\ chat = [s \in Sessions |-> NoSession]
    /\ held = {GivenArray}
    /\ cur = NoOperation
    /\ request = NoRequest
    /\ chatOutcome = NoResult

(***************************************************************************)
(* Values of the job queue (JobQueue.js).                                  *)
(***************************************************************************)
MaxJobs == 2

\* MAX_CONCURRENT_JOBS: unset, or what setMaxConcurrentJobs(2) stored.
MaxConcurrentValues == {0, 2}

\* The executions of processJobs that may be running at the same time.
Executions == {1, 2}

\* What job.handler may name: a function that returns ("work"), and one
\* whose call ends in the catch block ("broken"): the function throws, or no
\* function has that name and processJobs throws `not found` itself.
Handlers == {"work", "broken"}

\* The argument of addJob and an element of the argument of addJobs:
\* {id, type, handler, data}; id 0, type "" and handler "" stand for a
\* member that is missing.
JobArg(id, type, handler) ==
    [id |-> id, type |-> type, handler |-> handler, data |-> id]

\* An entry of the queue: {id, type, handler, data, createdAt, status}
QueueEntry(job) ==
    [id |-> job.id, type |-> job.type, handler |-> job.handler,
     data |-> job.data, status |-> "queued"]

\* The entry of a job with the given id and handler.
Job(id, handler) == QueueEntry(JobArg(id, "task", handler))

\* What addJob / addJobs gave its caller: the ids it returned, or the error
\* it threw (the index is that of `Job at index ${index}`, -1 without one).
NoAddOutcome == [kind |-> "none", ids |-> <<>>, message |-> "", index |-> -1]

AddReturn(ids) == [kind |-> "return", ids |-> ids, message |-> "", index |-> -1]

AddThrow(message, at) ==
    [kind |-> "throw", ids |-> <<>>, message |-> message, index |-> at]

\* An execution of processJobs that is not running.
NoExecution ==
    [pc |-> "idle", runningJobs |-> <<>>, queue |-> <<>>, jobsToProcess |-> <<>>,
     k |-> 0, failedJobs |-> <<>>, currentRunning |-> <<>>]

\* The script properties are unset, no trigger exists, nothing runs.
JobsIdle ==
    /\ jobQueue = <<>>
    /\ runningJobs = <<>>
    /\ failedJobs = <<>>
    /\ maxConcurrentJobs = 0
    /\ trigger = FALSE
    /\ exec = [p \in Executions |-> NoExecution]
    /\ added = 0
    /\ runs = [i \in 1..MaxJobs |-> [returned |-> 0, failed |-> 0]]
    /\ addOutcome = NoAddOutcome

Init ==
    /\ pc = "idle"
    /\ op = "none"
    /\ attempt = 0
    /\ lastError = NoError
    /\ trace = <<>>
    /\ result = NoResult
    /\ loopResult = NoLoopResult
    /\ remote \in SUBSET Ids
    /\ uploadUrl = ""
    /\ names = <<>>
    /\ idx = 0
    /\ success = <<>>
    /\ failed = <<>>
    /\ PromptIdle
    /\ ChatIdle
    /\ JobsIdle

\* A caller invokes prompt(): the request is built and _makeRequest starts.
CallGenerate ==
    /\ pc = "idle"
    /\ pc' = "makeRequest"
    /\ op' = "generateContent"
    /\ attempt' = 0
    /\ lastError' = NoError
    /\ trace' = <<>>
    /\ result' = NoResult
    /\ loopResult' = NoLoopResult
    /\ UNCHANGED <<remote, callVars>>
    /\ UNCHANGED <<promptVars, chatVars, jobVars>>

\* One iteration of the for loop of _makeRequest, with the throw that follows
\* the loop when the iteration was the last one.
makeRequest ==
    /\ pc = "makeRequest"
    /\ LoopContinues(attempt)
    /\ \E o \in Outcomes :
        LET b == makeRequestBranch(o)
            f == Fetch(GenerateUrl, o)
        IN
        CASE b = "return" ->
               /\ trace' = Append(trace, f)
               /\ result' = Return([t |-> "json", of |-> o.body])
               /\ loopResult' = LoopReturn(o)
               /\ pc' = "done"
               /\ UNCHANGED <<attempt, lastError>>
          [] b = "throw" ->
               /\ trace' = Append(trace, f)
               /\ result' = Throw(makeRequestNonRetryable(o))
               /\ loopResult' = LoopThrow(makeRequestNonRetryable(o))
               /\ pc' = "done"
               /\ UNCHANGED <<attempt, lastError>>
          [] OTHER ->
               /\ trace' = trace \o <<f, Sleep(BackoffDelay(attempt))>>
               /\ lastError' = makeRequestLastError(o)
               /\ attempt' = attempt + 1
               /\ IF LoopContinues(attempt + 1)
                  THEN pc' = "makeRequest" /\ UNCHANGED <<result, loopResult>>
                  ELSE /\ pc' = "done"
                       /\ result' = Throw(makeRequestExhausted(makeRequestLastError(o)))
                       /\ loopResult' =
                              LoopThrow(makeRequestExhausted(makeRequestLastError(o)))
    /\ UNCHANGED <<op, remote, callVars>>
    /\ UNCHANGED <<promptVars, chatVars, jobVars>>

(***************************************************************************)
(* _GeminiAppFileManager._makeRequestWithRetry: the retry loop of the file *)
(* manager, and its callers getFile, listFiles and _uploadBytesSimple.     *)
(***************************************************************************)
\* A fileName argument: 'files/<id>' or the bare '<id>'.
FileNames == [form : {"name", "id"}, id : Ids]

\* fileName.replace('files/', '')
CleanFileName(fileName) == fileName.id

\* The upload URLs the start request may be answered with.
UploadUrls == {"u1", "u2"}

\* What one iteration of the loop does with the answer of its fetch.
makeRequestWithRetryBranch(o) ==
    CASE o.kind = "exception"                  -> "network"
      [] o.status >= 200 /\ o.status < 300     -> "return"
      [] IsRetryable(o.status)                 -> "retry"
      [] OTHER                                 -> "return"

\* lastError = new Error(`HTTP ${statusCode}: ${response.getContentText()}`)
\* or, in the catch, lastError = error
makeRequestWithRetryLastError(o) ==
    IF o.kind = "exception" THEN JsError("Error", o.body)
    ELSE [name |-> "Error", message |-> <<Seg("HTTP", o.status, o.body)>>,
          statusCode |-> -1, response |-> Payload("undefined", "")]

\* throw new GeminiAppApiError(`Request failed after ${maxRetries} retries: ...`)
makeRequestWithRetryExhausted(last) ==
    GeminiAppApiError(
        <<Seg("Request failed after retries", maxRetries, "")>>
            \o (IF last.message = <<>> THEN <<Seg("Unknown error", 0, "")>>
                ELSE last.message),
        0, NullPayload)

\* The catch blocks an error thrown inside an upload entry point passes on its
\* way to the caller: uploadFromUrl (lines 213-219), uploadFile (1191-1193),
\* _prepareFilePart (1298-1308); uploadDriveFile has none.
UploadEntryError(entry, err) ==
    CASE entry \in {"uploadFromUrl", "prepareFilePartUrl"} ->
           GeminiAppApiError(
               <<Seg("Failed to fetch file from URL", 0, "")>> \o err.message,
               0, NullPayload)
      [] entry = "uploadFile" ->
           GeminiAppValidationError(
               <<Seg("Failed to access Drive file with ID", 0, "")>> \o err.message)
      [] entry = "prepareFilePart" ->
           GeminiAppApiError(
               <<Seg("Cannot access Google Drive file", 0, "")>> \o err.message,
               403, NullPayload)
      [] OTHER -> err

\* What an upload entry point returns for the uploaded file resource.
\* The outcome of an upload entry point inside which err was thrown.
ThrowVia(entry, err) ==
    [kind |-> "throw", value |-> [t |-> "none"],
     error |-> UploadEntryError(entry, err), cause |-> err]

UploadEntryValue(entry, file) ==
    IF entry \in {"prepareFilePart", "prepareFilePartUrl"}
    THEN [t |-> "fileData", fileUri |-> file.name]
    ELSE file

UploadEntries ==
    {"uploadDriveFile", "uploadFromUrl", "uploadFile", "prepareFilePart",
     "prepareFilePartUrl"}

\* Entry points that first read the bytes from a URL or from Drive.
HasSource(entry) == entry # "uploadDriveFile"

\* getFile / listFiles: what follows _makeRequestWithRetry's return.
\*   if (code !== 200) { data = JSON.parse(text); throw new GeminiAppApiError(..) }
\*   return JSON.parse(text)
fileRequestResult(what, r) ==
    CASE ~IsJson(r.body) -> Throw(JsError("SyntaxError", r.body))
      [] r.status # 200 ->
           Throw(GeminiAppApiError(
               <<Seg(what, 0, ErrorMessage(Payload("parsed", r.body)))>>,
               r.status, Payload("parsed", r.body)))
      [] OTHER -> Return([t |-> "json", of |-> r.body])

\* _uploadBytesSimple, lines 392-406: the start request did not answer 200.
startFailed(r) ==
    GeminiAppApiError(
        <<Seg("Failed to start resumable upload", 0,
              IF r.body = "errjson" THEN "error.message"
              ELSE IF r.body = "okjson" THEN "Unknown error" ELSE r.body)>>,
        r.status, Payload("raw", r.body))

\* _uploadBytesSimple, lines 412-418: no X-Goog-Upload-URL header.
noUploadUrl(r) ==
    GeminiAppApiError(<<Seg("No upload URL returned in response", 0, "")>>,
                      500, Payload("raw", r.body))

\* _uploadBytesSimple, lines 434-448: upload+finalize did not answer 200.
uploadFailed(r) ==
    GeminiAppApiError(
        <<Seg("File upload failed", 0,
              IF r.body = "errjson" THEN "error.message"
              ELSE IF r.body = "okjson" THEN "Unknown error" ELSE r.body)>>,
        r.status, Payload("raw", r.body))

StartUrl == Url("upload/files", "")

RetryUrl ==
    CASE op = "getFile"   -> Url("files.get", CleanFileName(names[1]))
      [] op = "listFiles" -> Url("files.list", "")
      [] OTHER            -> StartUrl

\* The answers to a request of the file manager: those of any request, and for
\* the start request also a 200 carrying an upload URL.
RetryOutcomes ==
    Outcomes \cup
        (IF op \in UploadEntries
         THEN {Http(200, "okjson", u) : u \in UploadUrls} ELSE {})

CallGetFile ==
    /\ pc = "idle"
    /\ \E n \in FileNames : names' = <<n>>
    /\ pc' = "makeRequestWithRetry"
    /\ op' = "getFile"
    /\ attempt' = 0
    /\ lastError' = NoError
    /\ trace' = <<>>
    /\ result' = NoResult
    /\ loopResult' = NoLoopResult
    /\ UNCHANGED <<remote, idx, success, failed, uploadUrl>>
    /\ UNCHANGED <<promptVars, chatVars, jobVars>>

CallListFiles ==
    /\ pc = "idle"
    /\ pc' = "makeRequestWithRetry"
    /\ op' = "listFiles"
    /\ attempt' = 0
    /\ lastError' = NoError
    /\ trace' = <<>>
    /\ result' = NoResult
    /\ loopResult' = NoLoopResult
    /\ UNCHANGED <<remote, callVars>>
    /\ UNCHANGED <<promptVars, chatVars, jobVars>>

\* uploadDriveFile, uploadFromUrl, uploadFile (a Drive id) or _prepareFilePart
\* (a Drive id or Workspace URL; or, as prepareFilePartUrl, any other URL).
CallUpload ==
    /\ pc = "idle"
    /\ \E entry \in UploadEntries :
        /\ op' = entry
        /\ pc' = IF HasSource(entry) THEN "source" ELSE "makeRequestWithRetry"
    /\ attempt' = 0
    /\ lastError' = NoError
    /\ trace' = <<>>
    /\ result' = NoResult
    /\ loopResult' = NoLoopResult
    /\ UNCHANGED <<remote, callVars>>
    /\ UNCHANGED <<promptVars, chatVars, jobVars>>

\* The bytes are read: UrlFetchApp.fetch(url, {muteHttpExceptions: false}) or
\* DriveApp.getFileById(id); either may throw.
readSource ==
    /\ pc = "source"
    /\ \E ok \in BOOLEAN :
        IF ok
        THEN pc' = "makeRequestWithRetry" /\ UNCHANGED result
        ELSE /\ pc' = "done"
             /\ result' = ThrowVia(op, JsError("Error", "source"))
    /\ UNCHANGED <<op, attempt, lastError, trace, loopResult, remote, callVars>>
    /\ UNCHANGED <<promptVars, chatVars, jobVars>>

\* What the caller of _makeRequestWithRetry does with the response r it got.
afterRetry(r) ==
    CASE op = "getFile" ->
           /\ pc' = "done"
           /\ result' = fileRequestResult("Failed to get file", r)
           /\ UNCHANGED uploadUrl
      [] op = "listFiles" ->
           /\ pc' = "done"
           /\ result' = fileRequestResult("Failed to list files", r)
           /\ UNCHANGED uploadUrl
      [] r.status # 200 ->
           /\ pc' = "done"
           /\ result' = ThrowVia(op, startFailed(r))
           /\ UNCHANGED uploadUrl
      [] r.header = "" ->
           /\ pc' = "done"
           /\ result' = ThrowVia(op, noUploadUrl(r))
           /\ UNCHANGED uploadUrl
      [] OTHER ->
           /\ pc' = "finalize"
           /\ uploadUrl' = r.header
           /\ UNCHANGED result

\* One iteration of the for loop of _makeRequestWithRetry, with what follows
\* the loop, or the return, up to the caller's next fetch.
makeRequestWithRetry ==
    /\ pc = "makeRequestWithRetry"
    /\ LoopContinues(attempt)
    /\ \E o \in RetryOutcomes :
        LET b == makeRequestWithRetryBranch(o)
            f == Fetch(RetryUrl, o)
        IN
        IF b = "return"
        THEN /\ trace' = Append(trace, f)
             /\ afterRetry(o)
             /\ loopResult' = LoopReturn(o)
             /\ UNCHANGED <<attempt, lastError>>
        ELSE /\ trace' = trace \o <<f, Sleep(BackoffDelay(attempt))>>
             /\ lastError' = makeRequestWithRetryLastError(o)
             /\ attempt' = attempt + 1
             /\ UNCHANGED uploadUrl
             /\ IF LoopContinues(attempt + 1)
                THEN pc' = "makeRequestWithRetry" /\ UNCHANGED <<result, loopResult>>
                ELSE /\ pc' = "done"
                     /\ result' = ThrowVia(op,
                            makeRequestWithRetryExhausted(
                                makeRequestWithRetryLastError(o)))
                     /\ loopResult' = LoopThrow(
                            makeRequestWithRetryExhausted(
                                makeRequestWithRetryLastError(o)))
    /\ UNCHANGED <<op, remote, names, idx, success, failed>>
    /\ UNCHANGED <<promptVars, chatVars, jobVars>>

\* The answers to the upload+finalize request: the file resource of a new
\* file (the remote service names it), a 200 that is not JSON, an error
\* status, a transport exception.
FinalizeOutcomes ==
    {Http(200, "okjson", id) : id \in Ids \ remote}
        \cup { Http(200, "text", ""), Http(400, "errjson", ""),
               Http(503, "text", ""), ConnectionFailure }

\* Mutant of FinalizeUrl: the bytes go to the upload base URL again.
FinalizeUrlIsStartUrl == StartUrl

\* Where the upload+finalize request is sent.
FinalizeUrl == Url("upload", uploadUrl)

\* _uploadBytesSimple, lines 420-451: step 2, a single UrlFetchApp.fetch.
finalize ==
    /\ pc = "finalize"
    /\ \E o \in FinalizeOutcomes :
        /\ trace' = Append(trace, Fetch(FinalizeUrl, o))
        /\ CASE o.kind = "exception" ->
                  /\ result' = ThrowVia(op, JsError("Error", o.body))
                  /\ UNCHANGED remote
             [] o.status # 200 ->
                  /\ result' = ThrowVia(op, uploadFailed(o))
                  /\ UNCHANGED remote
             [] ~IsJson(o.body) ->
                  /\ result' = ThrowVia(op, JsError("SyntaxError", o.body))
                  /\ UNCHANGED remote
             [] OTHER ->
                  /\ result' = Return(UploadEntryValue(op,
                                   [t |-> "file", name |-> o.header]))
                  /\ remote' = remote \cup {o.header}
    /\ pc' = "done"
    /\ UNCHANGED <<op, attempt, lastError, loopResult, callVars>>
    /\ UNCHANGED <<promptVars, chatVars, jobVars>>

(***************************************************************************)
(* _GeminiAppFileManager.deleteFile and deleteFiles.                       *)
(***************************************************************************)
DeleteUrl(fileName) == Url("files.delete", CleanFileName(fileName))

\* The answers of the remote service to DELETE /files/<id>, each with the
\* files it holds afterwards: done (200 or 204) when it holds the file, not
\* found when it does not; or a refusal, an outage, a transport exception.
DeleteAnswers(id) ==
    (IF id \in remote
     THEN {[o |-> Http(s, "okjson", ""), left |-> remote \ {id}] : s \in {200, 204}}
     ELSE {[o |-> Http(404, "errjson", ""), left |-> remote]})
    \cup {[o |-> x, left |-> remote] :
            x \in {Http(403, "errjson", ""), Http(503, "text", ""), ConnectionFailure}}

\* Mutant of deleteFileResult: a 404 is an error like any other status.
deleteFileResultStrict(o) ==
    CASE o.kind = "exception" ->
           Throw(GeminiAppApiError(
               <<Seg("Delete request failed", 0, o.body)>>,
               0, Payload("string", o.body)))
      [] o.status = 200 \/ o.status = 204 ->
           Return([t |-> "deleted", success |-> TRUE, alreadyDeleted |-> FALSE])
      [] OTHER ->
           Throw(GeminiAppApiError(
               <<Seg("Failed to delete file", 0, o.body)>>,
               o.status, Payload("raw", o.body)))

\* deleteFile, lines 487-527: what it returns or throws for the answer o.
deleteFileResult(o) ==
    CASE o.kind = "exception" ->
           Throw(GeminiAppApiError(
               <<Seg("Delete request failed", 0, o.body)>>,
               0, Payload("string", o.body)))
      [] o.status = 200 \/ o.status = 204 ->
           Return([t |-> "deleted", success |-> TRUE, alreadyDeleted |-> FALSE])
      [] o.status = 404 ->
           Return([t |-> "deleted", success |-> TRUE, alreadyDeleted |-> TRUE])
      [] OTHER ->
           Throw(GeminiAppApiError(
               <<Seg("Failed to delete file", 0,
                     IF o.body = "errjson" THEN "error.message"
                     ELSE IF o.body = "okjson" THEN "Unknown error" ELSE o.body)>>,
               o.status, Payload("raw", o.body)))

\* Mutant of deleteFilesContinues: the loop stops at the first failure.
deleteFilesStopsAtFailure(i, total, r) == r.kind = "return" /\ i + 1 < total

\* for (let i = 0; i < total; i++) { try { .. } catch (error) { .. } }:
\* whether the loop runs another iteration after the one at i, whose
\* deleteFile had the outcome r.
deleteFilesContinues(i, total, r) == i + 1 < total

RECURSIVE SeqsUpTo(_, _)
SeqsUpTo(S, n) ==
    IF n = 0 THEN {<<>>}
    ELSE LET shorter == SeqsUpTo(S, n - 1)
         IN shorter \cup {Append(q, x) : q \in shorter, x \in S}

CallDeleteFile ==
    /\ pc = "idle"
    /\ \E n \in FileNames : names' = <<n>>
    /\ pc' = "deleteFile"
    /\ op' = "deleteFile"
    /\ attempt' = 0
    /\ lastError' = NoError
    /\ trace' = <<>>
    /\ result' = NoResult
    /\ loopResult' = NoLoopResult
    /\ UNCHANGED <<remote, idx, success, failed, uploadUrl>>
    /\ UNCHANGED <<promptVars, chatVars, jobVars>>

\* deleteFile: a single UrlFetchApp.fetch and the handling of its answer.
deleteFile ==
    /\ pc = "deleteFile"
    /\ \E a \in DeleteAnswers(CleanFileName(names[1])) :
        /\ trace' = Append(trace, Fetch(DeleteUrl(names[1]), a.o))
        /\ result' = deleteFileResult(a.o)
        /\ remote' = a.left
    /\ pc' = "done"
    /\ UNCHANGED <<op, attempt, lastError, loopResult, callVars>>
    /\ UNCHANGED <<promptVars, chatVars, jobVars>>

\* deleteFiles(fileNames): results = {success: [], failed: []}; an empty
\* list returns at once.
CallDeleteFiles ==
    /\ pc = "idle"
    /\ \E ns \in SeqsUpTo(FileNames, MaxNames) :
        /\ names' = ns
        /\ IF ns = <<>>
           THEN /\ pc' = "done"
                /\ result' = Return([t |-> "results", success |-> <<>>, failed |-> <<>>])
           ELSE /\ pc' = "deleteFiles"
                /\ result' = NoResult
    /\ loopResult' = NoLoopResult
    /\ op' = "deleteFiles"
    /\ loopResult' = NoLoopResult
    /\ idx' = 0
    /\ success' = <<>>
    /\ failed' = <<>>
    /\ attempt' = 0
    /\ lastError' = NoError
    /\ trace' = <<>>
    /\ UNCHANGED <<remote, uploadUrl>>
    /\ UNCHANGED <<promptVars, chatVars, jobVars>>

\* One iteration of the for loop of deleteFiles (idx is i; names[idx + 1] is
\* fileNames[i]), with the return that follows the last one.
deleteFiles ==
    /\ pc = "deleteFiles"
    /\ idx < Len(names)
    /\ LET fileName == names[idx + 1]
           total == Len(names)
       IN
       \E a \in DeleteAnswers(CleanFileName(fileName)) :
        LET r == deleteFileResult(a.o)
            f == Fetch(DeleteUrl(fileName), a.o)
            success2 == IF r.kind = "return" THEN Append(success, fileName)
                        ELSE success
            failed2 == IF r.kind = "return" THEN failed
                       ELSE Append(failed,
                                [fileName |-> fileName, error |-> r.error.message])
        IN
        /\ remote' = a.left
        /\ trace' = IF r.kind = "return" /\ idx < total - 1
                    THEN trace \o <<f, Sleep(1000)>>
                    ELSE Append(trace, f)
        /\ success' = success2
        /\ failed' = failed2
        /\ idx' = idx + 1
        /\ IF deleteFilesContinues(idx, total, r)
           THEN pc' = "deleteFiles" /\ UNCHANGED result
           ELSE /\ pc' = "done"
                /\ result' = Return([t |-> "results", success |-> success2,
                                     failed |-> failed2])
    /\ UNCHANGED <<op, attempt, lastError, loopResult, names, uploadUrl>>
    /\ UNCHANGED <<promptVars, chatVars, jobVars>>

\* The call has returned or thrown; the caller goes on.
Finish ==
    /\ pc = "done"
    /\ pc' = "idle"
    /\ op' = "none"
    /\ attempt' = 0
    /\ lastError' = NoError
    /\ trace' = <<>>
    /\ result' = NoResult
    /\ loopResult' = NoLoopResult
    /\ names' = <<>>
    /\ idx' = 0
    /\ success' = <<>>
    /\ failed' = <<>>
    /\ uploadUrl' = ""
    /\ UNCHANGED remote
    /\ UNCHANGED <<promptVars, chatVars, jobVars>>

Next ==
    \/ CallGenerate
    \/ makeRequest
    \/ CallGetFile
    \/ CallListFiles
    \/ CallUpload
    \/ readSource
    \/ makeRequestWithRetry
    \/ finalize
    \/ CallDeleteFile
    \/ deleteFile
    \/ CallDeleteFiles
    \/ deleteFiles
    \/ Finish

Spec == Init /\ [][Next]_vars

(***************************************************************************)
(* _GeminiApp._formatResponse: from the parsed response of generateContent *)
(* to the value the prompt returns.                                        *)
(*                                                                         *)
(* A text is a sequence of pieces; concatenation of texts is \o.  The      *)
(* pieces are chosen so that some concatenations are JSON documents and    *)
(* others are not, and one piece is longer than the 200 characters the     *)
(* parse error quotes.                                                     *)
(***************************************************************************)
MaxParts == 3

LBrace == "{\"a\":"

RBrace == "}"

Num == "1"

Quoted == "\"hello\""

Long == "x repeated 250 times"

\* The text of a part; "" is a part without text (or with an empty one).
PartTexts == {"", LBrace, Num, RBrace, Quoted, Long}

\* Number of characters of a piece.
TokLen(t) ==
    CASE t = LBrace -> 5
      [] t = RBrace -> 1
      [] t = Num    -> 1
      [] t = Quoted -> 7
      [] t = Long   -> 250
      [] OTHER      -> 0

RECURSIVE CharLen(_)
CharLen(text) == IF text = <<>> THEN 0 ELSE TokLen(Head(text)) + CharLen(Tail(text))

\* text.substring(0, n): the pieces it keeps, each with the number of its
\* characters kept (the last one may be cut).
RECURSIVE Substring(_, _)
Substring(text, n) ==
    IF text = <<>> \/ n = 0 THEN <<>>
    ELSE IF TokLen(Head(text)) <= n
         THEN <<Seg("text", TokLen(Head(text)), Head(text))>>
                  \o Substring(Tail(text), n - TokLen(Head(text)))
         ELSE <<Seg("text", n, Head(text))>>

\* The values of JSON.parse on these texts: a number (as many digits 1 as
\* depth says), the string hello, or an object {"a": <value>} nested depth
\* times around a number or a string.
JsonValue(j, depth, digits) == [j |-> j, depth |-> depth, digits |-> digits]

NotJson == JsonValue("SyntaxError", 0, 0)

\* JSON.parse(text): value := 1+ | "hello" | {"a": value }
RECURSIVE JsonParse(_)
JsonParse(text) ==
    CASE text = <<>> -> NotJson
      [] \A i \in 1..Len(text) : text[i] = Num -> JsonValue("number", 0, Len(text))
      [] text = <<Quoted>> -> JsonValue("string", 0, 0)
      [] Len(text) >= 3 /\ text[1] = LBrace /\ text[Len(text)] = RBrace ->
           LET inner == JsonParse(SubSeq(text, 2, Len(text) - 1))
           IN IF inner = NotJson THEN NotJson
              ELSE JsonValue(inner.j, inner.depth + 1, inner.digits)
      [] OTHER -> NotJson

\* One candidate of a response: finishReason ("" when absent) and the texts
\* of content.parts (<<>> when content or parts is absent).
Candidate(finishReason, texts) == [finishReason |-> finishReason, texts |-> texts]

\* The parsed response: promptFeedback.blockReason ("" when absent), whether
\* it has a candidates member, and the candidates.
Response(blockReason, has, candidates) ==
    [blockReason |-> blockReason, has |-> has, candidates |-> candidates]

\* The `response` member of the errors of _formatResponse: the response.
WholeResponse == Payload("response", "")

\* Mutant of IsBlocked: a block indication counts only without candidates.
IsBlockedWithoutCandidates(r) == r.blockReason # "" /\ r.candidates = <<>>

\* if (response.promptFeedback?.blockReason)
IsBlocked(r) == r.blockReason # ""

\* if (!response.candidates || response.candidates.length === 0)
NoCandidates(r) == ~r.has \/ Len(r.candidates) = 0

\* Mutant of AcceptedFinishReasons: MAX_TOKENS is rejected.
AcceptedFinishReasonsWithoutMaxTokens == {"STOP", "FINISH_REASON_UNSPECIFIED"}

\* ['STOP', 'MAX_TOKENS', 'FINISH_REASON_UNSPECIFIED']
AcceptedFinishReasons == {"STOP", "MAX_TOKENS", "FINISH_REASON_UNSPECIFIED"}

\* if (candidate.finishReason && ![..].includes(candidate.finishReason))
FinishReasonRejected(candidate) ==
    candidate.finishReason # "" /\ candidate.finishReason \notin AcceptedFinishReasons

\* for (const part of parts) { if (part.text) { text += part.text; } }
RECURSIVE textOf(_)
textOf(texts) ==
    IF texts = <<>> THEN <<>>
    ELSE (IF Head(texts) # "" THEN <<Head(texts)>> ELSE <<>>) \o textOf(Tail(texts))

\* Mutant of formatText: a text that does not parse is returned as it is.
formatTextLenient(text, schema) ==
    IF schema
    THEN IF JsonParse(text) # NotJson
         THEN Return([t |-> "parsed", json |-> JsonParse(text), text |-> <<>>])
         ELSE Return([t |-> "string", json |-> NotJson, text |-> text])
    ELSE Return([t |-> "string", json |-> NotJson, text |-> text])

\* Mutant of formatText: a text that is a JSON document is parsed, schema or not.
formatTextSniffing(text, schema) ==
    IF JsonParse(text) # NotJson
    THEN Return([t |-> "parsed", json |-> JsonParse(text), text |-> <<>>])
    ELSE IF schema
         THEN Throw(GeminiAppApiError(
                  <<Seg("Failed to parse JSON response", 0, "SyntaxError")>>
                      \o Substring(text, 200),
                  500, WholeResponse))
         ELSE Return([t |-> "string", json |-> NotJson, text |-> text])

\* Lines 1472-1485: if (schema) { try { return JSON.parse(text) } catch (e)
\* { throw new GeminiAppApiError(`Failed to parse JSON response: ..
\* Response text: ${text.substring(0, 200)}...`, 500, response) } } return text
formatText(text, schema) ==
    IF schema
    THEN IF JsonParse(text) # NotJson
         THEN Return([t |-> "parsed", json |-> JsonParse(text), text |-> <<>>])
         ELSE Throw(GeminiAppApiError(
                  <<Seg("Failed to parse JSON response", 0, "SyntaxError")>>
                      \o Substring(text, 200),
                  500, WholeResponse))
    ELSE Return([t |-> "string", json |-> NotJson, text |-> text])

\* Mutant of formatResponse: the text is formatted before the finish reason
\* is looked at, which then matters only when formatting succeeded.
formatResponseTextFirst(r, schema) ==
    CASE IsBlocked(r) ->
           Throw(GeminiAppApiError(<<Seg("Response was blocked", 0, r.blockReason)>>,
                                   400, WholeResponse))
      [] NoCandidates(r) ->
           Throw(GeminiAppApiError(<<Seg("No response candidates returned", 0, "")>>,
                                   400, WholeResponse))
      [] formatText(textOf(r.candidates[1].texts), schema).kind = "throw" ->
           formatText(textOf(r.candidates[1].texts), schema)
      [] FinishReasonRejected(r.candidates[1]) ->
           Throw(GeminiAppApiError(
               <<Seg("Response generation stopped", 0, r.candidates[1].finishReason)>>,
               400, WholeResponse))
      [] OTHER -> formatText(textOf(r.candidates[1].texts), schema)

\* _formatResponse(response, schema)
formatResponse(r, schema) ==
    CASE IsBlocked(r) ->
           Throw(GeminiAppApiError(<<Seg("Response was blocked", 0, r.blockReason)>>,
                                   400, WholeResponse))
      [] NoCandidates(r) ->
           Throw(GeminiAppApiError(<<Seg("No response candidates returned", 0, "")>>,
                                   400, WholeResponse))
      [] FinishReasonRejected(r.candidates[1]) ->
           Throw(GeminiAppApiError(
               <<Seg("Response generation stopped", 0, r.candidates[1].finishReason)>>,
               400, WholeResponse))
      [] OTHER -> formatText(textOf(r.candidates[1].texts), schema)

\* The responses generateContent may be answered with.
FinishReasons ==
    {"", "STOP", "MAX_TOKENS", "FINISH_REASON_UNSPECIFIED", "SAFETY", "RECITATION"}

BlockReasons == {"", "SAFETY"}

\* A candidate that may follow the first one.
OtherCandidates == {Candidate("SAFETY", <<Num>>), Candidate("STOP", <<Quoted>>)}

Responses ==
    {Response(b, h, <<>>) : b \in BlockReasons, h \in BOOLEAN}
    \cup {Response(b, TRUE, <<Candidate(f, t)>>) :
            b \in BlockReasons, f \in FinishReasons, t \in SeqsUpTo(PartTexts, MaxParts)}
    \cup {Response(b, TRUE, <<Candidate(f, t), c>>) :
            b \in BlockReasons, f \in FinishReasons,
            t \in SeqsUpTo(PartTexts, MaxParts), c \in OtherCandidates}

\* The responses tried after a file prompt: a JSON document, a text that is
\* none, a blocked response, a response without candidates.
FileResponses ==
    { Response("", TRUE, <<Candidate("STOP", <<LBrace, Num, RBrace>>)>>),
      Response("", TRUE, <<Candidate("STOP", <<Long>>)>>),
      Response("SAFETY", TRUE, <<>>),
      Response("", FALSE, <<>>) }

\* What _makeRequest throws, when it throws.
RequestErrors ==
    { makeRequestNonRetryable(Http(400, "errjson", "")),
      makeRequestExhausted(makeRequestLastError(Http(503, "text", ""))) }

(***************************************************************************)
(* _GeminiApp.promptWithFile and _prepareFilePart: from the file argument  *)
(* to the parts of the request.                                            *)
(***************************************************************************)
MaxFiles == 3

\* One input of _prepareFilePart, by what its tests see:
\*   ref  - an object with uri and mimeType (a pre-uploaded reference);
\*   doc  - a string that is a plain Drive file ID or a URL of
\*          docs/sheets/slides/drive.google.com with a file ID in it;
\*   url  - any other string (a remote URL);
\*   blob - a Blob in memory (mimeType is its content type).
FileInput(kind, mimeType, uri) == [kind |-> kind, mimeType |-> mimeType, uri |-> uri]

FileInputs ==
    { FileInput("blob", Str("image/png"), NoUri),
      FileInput("ref", Str("video/mp4"), Uri("given", 0)),
      FileInput("doc", Undefined, NoUri),
      FileInput("url", Undefined, NoUri) }

\* options.mimeType: absent, one string, or an array with a string or a
\* null per position (it may be shorter than the file array).
MimeStrings == {"audio/mpeg", "audio/wav"}

\* In the arrays tried, neighbouring positions hold different strings.
MimeStringAt(i) == IF i % 2 = 1 THEN "audio/mpeg" ELSE "audio/wav"

MimeOptions(n) ==
    {Undefined} \cup {Str(s) : s \in MimeStrings}
        \cup {Arr(a) : a \in {b \in SeqsUpTo(MimeStrings \cup {"null"}, n) :
                                 \A i \in 1..Len(b) : b[i] \in {"null", MimeStringAt(i)}}}

\* const mimeTypes = Array.isArray(options.mimeType) ? options.mimeType : [];
mimeTypesOf(m) == IF m.form = "array" THEN m.v ELSE <<>>

\* mimeTypes[index]
ElementAt(a, i) ==
    IF i + 1 > Len(a) THEN Undefined
    ELSE IF a[i + 1] = "null" THEN Null ELSE Str(a[i + 1])

\* const mimeType = mimeTypes[index] || options.mimeType;
positionalMimeType(m, i) ==
    IF Truthy(ElementAt(mimeTypesOf(m), i)) THEN ElementAt(mimeTypesOf(m), i) ELSE m

\* The MIME type _prepareFilePart is called with for the element at i.
mimeTypeFor(c, i) == IF c.isArray THEN positionalMimeType(c.mimeType, i) ELSE c.mimeType

\* Mutant of Dispatch: a Blob is uploaded like a Drive file.
DispatchUploadsBlob(input) ==
    CASE input.kind = "ref" -> "reference"
      [] input.kind = "doc" -> "drive"
      [] input.kind = "url" -> "url"
      [] OTHER              -> "drive"

\* The branch of _prepareFilePart an input takes.
Dispatch(input) ==
    CASE input.kind = "ref" -> "reference"   \* file.uri && file.mimeType
      [] input.kind = "doc" -> "drive"       \* isPlainFileId || isWorkspaceUrl
      [] input.kind = "url" -> "url"
      [] OTHER              -> "inline"

\* The document store: what file.getMimeType() says of a Drive file (an
\* office document or a regular file), and the content type of the blob
\* file.getBlob() gives for it.  For an office document that is the store's
\* choice; the code asks for no export on this path.
OfficeDocument == "application/vnd.google-apps.document"

DriveMimeTypes == {OfficeDocument, "text/plain"}

BlobTypes(driveMimeType) ==
    IF driveMimeType = OfficeDocument
    THEN {"application/pdf", OfficeDocument}
    ELSE {driveMimeType}

\* What _uploadBytesSimple throws, when it throws.
UploadErrors == {uploadFailed(Http(400, "errjson", ""))}

\* Lines 1275-1309: DriveApp.getFileById(id), then uploadDriveFile(driveFile)
\* (getBlob, getContentType, _uploadBytesSimple); any error is rethrown as a
\* GeminiAppApiError with status 403.  n files were uploaded before.  Each
\* outcome is the calls made and the part returned or the error thrown.
prepareDriveFile(i, n) ==
    {[calls |-> <<Called("DriveApp.getFileById", i, Undefined)>>,
      r |-> ThrowVia("prepareFilePart", JsError("Error", "No item with the given ID"))]}
    \cup UNION { UNION {
        {[calls |-> <<Called("DriveApp.getFileById", i, Str(d)),
                      Called("getBlob", i, Str(b)),
                      Called("upload", i, Str(b))>>,
          r |-> x] :
            x \in {Return(Part("fileData", Str(b), Uri("upload", n + 1), i))}
                    \cup {ThrowVia("prepareFilePart", e) : e \in UploadErrors}}
        : b \in BlobTypes(d) } : d \in DriveMimeTypes }

\* Lines 1311-1326: a mimeType is required; then uploadFromUrl(file, mimeType)
\* (UrlFetchApp.fetch of the URL, _uploadBytesSimple), whose catch rethrows
\* any error as a GeminiAppApiError with status 0.
prepareUrl(mimeType, i, n) ==
    IF ~Truthy(mimeType)
    THEN {[calls |-> <<>>,
           r |-> Throw(GeminiAppValidationError(
                     <<Seg("mimeType is required when providing a URL or file ID string",
                           0, "")>>))]}
    ELSE {[calls |-> <<Called("UrlFetchApp.fetch", i, Undefined)>>,
           r |-> ThrowVia("prepareFilePartUrl", JsError("Error", "source"))]}
         \cup
         {[calls |-> <<Called("UrlFetchApp.fetch", i, Undefined),
                       Called("upload", i, mimeType)>>,
           r |-> x] :
             x \in {Return(Part("fileData", mimeType, Uri("upload", n + 1), i))}
                     \cup {ThrowVia("prepareFilePartUrl", e) : e \in UploadErrors}}

\* _prepareFilePart(file, 'file', mimeType) for the element at index i.
prepareFilePartOutcomes(input, mimeType, i, n) ==
    CASE Dispatch(input) = "reference" ->
           {[calls |-> <<>>,
             r |-> Return(Part("fileData", input.mimeType, input.uri, i))]}
      [] Dispatch(input) = "drive" -> prepareDriveFile(i, n)
      [] Dispatch(input) = "url" -> prepareUrl(mimeType, i, n)
      [] OTHER ->
           {[calls |-> <<>>,
             r |-> Return(Part("inlineData", input.mimeType, NoUri, i))]}

IsUploadCall(ev) == ev.c = "upload"

\* prompt(text, options)
CallPrompt ==
    /\ step = "idle"
    /\ \E s \in BOOLEAN :
        call' = [entry |-> "prompt", isArray |-> FALSE, files |-> <<>>,
                 mimeType |-> Undefined, schema |-> s]
    /\ step' = "generate"
    /\ index' = 0
    /\ parts' = <<>>
    /\ calls' = <<>>
    /\ outcome' = NoResult
    /\ UNCHANGED reply
    /\ UNCHANGED <<clientVars, chatVars, jobVars>>

\* promptWithFile(text, file, options): file is one input or an array.
CallPromptWithFile ==
    /\ step = "idle"
    /\ \E a \in BOOLEAN, fs \in SeqsUpTo(FileInputs, MaxFiles), s \in BOOLEAN :
        /\ a \/ Len(fs) = 1
        /\ \E m \in MimeOptions(Len(fs)) :
            call' = [entry |-> "promptWithFile", isArray |-> a, files |-> fs,
                     mimeType |-> m, schema |-> s]
        /\ step' = IF fs = <<>> THEN "generate" ELSE "resolve"
    /\ index' = 0
    /\ parts' = <<>>
    /\ calls' = <<>>
    /\ outcome' = NoResult
    /\ UNCHANGED reply
    /\ UNCHANGED <<clientVars, chatVars, jobVars>>

\* One _prepareFilePart call of promptWithFile and parts.push(filePart).
prepareFilePart ==
    /\ step = "resolve"
    /\ index < Len(call.files)
    /\ \E o \in prepareFilePartOutcomes(
                    call.files[index + 1], mimeTypeFor(call, index), index,
                    Len(SelectSeq(calls, IsUploadCall))) :
        /\ calls' = calls \o o.calls
        /\ IF o.r.kind = "return"
           THEN /\ parts' = Append(parts, o.r.value)
                /\ index' = index + 1
                /\ step' = IF index + 1 < Len(call.files) THEN "resolve" ELSE "generate"
                /\ UNCHANGED outcome
           ELSE /\ outcome' = o.r
                /\ step' = "done"
                /\ UNCHANGED <<parts, index>>
    /\ UNCHANGED <<call, reply>>
    /\ UNCHANGED <<clientVars, chatVars, jobVars>>

\* const response = this._makeRequest('generateContent', request, ..);
\* return this._formatResponse(response, options.schema);
generateContent ==
    /\ step = "generate"
    /\ calls' = Append(calls, Called("generateContent", Len(parts), Undefined))
    /\ \/ \E r \in (IF call.entry = "prompt" THEN Responses ELSE FileResponses) :
            /\ reply' = r
            /\ outcome' = formatResponse(r, call.schema)
       \/ \E e \in RequestErrors :
            /\ outcome' = Throw(e)
            /\ UNCHANGED reply
    /\ step' = "done"
    /\ UNCHANGED <<call, index, parts>>
    /\ UNCHANGED <<clientVars, chatVars, jobVars>>

\* The prompt has returned or thrown; the caller goes on.
PromptFinish ==
    /\ step = "done"
    /\ step' = "idle"
    /\ call' = NoCall
    /\ index' = 0
    /\ parts' = <<>>
    /\ calls' = <<>>
    /\ reply' = NoReply
    /\ outcome' = NoResult
    /\ UNCHANGED <<clientVars, chatVars, jobVars>>

InitPrompt ==
    /\ pc = "idle"
    /\ op = "none"
    /\ attempt = 0
    /\ lastError = NoError
    /\ trace = <<>>
    /\ result = NoResult
    /\ loopResult = NoLoopResult
    /\ remote = {}
    /\ uploadUrl = ""
    /\ names = <<>>
    /\ idx = 0
    /\ success = <<>>
    /\ failed = <<>>
    /\ PromptIdle
    /\ ChatIdle
    /\ JobsIdle

NextPrompt ==
    \/ CallPrompt
    \/ CallPromptWithFile
    \/ prepareFilePart
    \/ generateContent
    \/ PromptFinish

SpecPrompt == InitPrompt /\ [][NextPrompt]_vars

(***************************************************************************)
(* The chat sessions: startChat, sendMessage, getHistory, and the one-shot *)
(* prompt next to them.  A send is two steps, the part of _sendMessage     *)
(* before _makeRequest is called and the part after it has returned.       *)
(***************************************************************************)
Texts == {"hi", "more", "bye"}

\* The text of the messages sent to a session.
SentTexts == {"hi", "more"}

SystemInstructions == {"", "Be terse"}

\* The sends of all sessions so far.
RECURSIVE SendsOf(_)
SendsOf(ss) ==
    IF ss = {} THEN 0
    ELSE LET s == CHOOSE x \in ss : TRUE
         IN Len(chat[s].sent) + SendsOf(ss \ {s})

SendsSoFar == SendsOf(Sessions)

\* this.history of session s, as the array it references holds it now
History(s) == heap[chat[s].history]

\* if (options.schema) { request.generationConfig.responseSchema = ..;
\*                       request.generationConfig.responseMimeType = .. }
chatGenerationConfig(options) ==
    IF options.schema
    THEN [responseSchema |-> "schema", responseMimeType |-> "application/json"]
    ELSE [responseSchema |-> "", responseMimeType |-> ""]

\* request of _sendMessage: contents is this.history itself
chatRequest(history, systemInstruction, options) ==
    Request(history,
            IF systemInstruction # "" THEN systemInstruction ELSE "",
            chatGenerationConfig(options).responseSchema,
            chatGenerationConfig(options).responseMimeType,
            "")

\* the same lines of prompt
promptGenerationConfig(options) ==
    IF options.schema
    THEN [responseSchema |-> "schema", responseMimeType |-> "application/json"]
    ELSE [responseSchema |-> "", responseMimeType |-> ""]

\* Mutant of promptRequest: a schema sets responseSchema only.
promptRequestWithoutMimeType(text, options) ==
    Request(<<Turn("", <<text>>)>>, "",
            promptGenerationConfig(options).responseSchema,
            "",
            options.model)

\* request of prompt: contents: [{ parts: [{ text }] }]
promptRequest(text, options) ==
    Request(<<Turn("", <<text>>)>>, "",
            promptGenerationConfig(options).responseSchema,
            promptGenerationConfig(options).responseMimeType,
            options.model)

\* What generateContent answers a send with: a response, and whether its
\* first candidate has a content member.
ChatReply(r, content) == [r |-> r, content |-> content]

ChatReplies ==
    { ChatReply(Response("", TRUE, <<Candidate("STOP", <<Quoted>>)>>), TRUE),
      ChatReply(Response("", TRUE, <<Candidate("MAX_TOKENS", <<>>)>>), FALSE),
      ChatReply(Response("", TRUE, <<Candidate("SAFETY", <<Num>>)>>), TRUE) }

\* What _makeRequest throws to a send.
ChatRequestErrors == {makeRequestNonRetryable(Http(400, "errjson", ""))}

\* Mutant of pushContent: the model turn takes the place of the user turn.
pushContentOverUserTurn(history, rep) ==
    IF rep.content
    THEN Append(SubSeq(history, 1, Len(history) - 1),
                Turn("model", rep.r.candidates[1].texts))
    ELSE history

\* if (response.candidates && response.candidates[0]?.content)
\*     this.history.push(response.candidates[0].content)
pushContent(history, rep) ==
    IF rep.content
    THEN Append(history, Turn("model", rep.r.candidates[1].texts))
    ELSE history

\* return this.ai._formatResponse(response, options.schema)   (_sendMessage)
sendResult(rep, options) == formatResponse(rep.r, options.schema)

\* return this._formatResponse(response, options.schema)      (prompt)
promptResult(rep, options) == formatResponse(rep.r, options.schema)

\* startChat(options): new _GeminiAppChat(this, options)
startChat ==
    /\ cur = NoOperation
    /\ \E s \in Sessions, given \in BOOLEAN, sys \in SystemInstructions :
         /\ ~chat[s].started
         /\ chat' = [chat EXCEPT ![s] =
                [started |-> TRUE,
                 history |-> IF given THEN GivenArray ELSE OwnArray(s),
                 systemInstruction |-> sys,
                 sent |-> <<>>]]
    /\ UNCHANGED <<heap, held, cur, request, chatOutcome>>
    /\ UNCHANGED <<clientVars, promptVars, jobVars>>

\* sendMessage -> _sendMessage, up to the call of _makeRequest
sendMessage ==
    /\ cur = NoOperation
    /\ \E s \in Sessions, text \in SentTexts, o \in SendOptions :
         /\ o.model = ""
         /\ chat[s].started
         /\ SendsSoFar < MaxSends
         /\ LET pushed == Append(History(s), Turn("user", <<text>>)) IN
              /\ heap' = [heap EXCEPT ![chat[s].history] = pushed]
              /\ request' = chatRequest(pushed, chat[s].systemInstruction, o)
         /\ cur' = [entry |-> "sendMessage", session |-> s, options |-> o,
                    inputs |-> <<>>, payloads |-> <<>>]
    /\ UNCHANGED <<chat, held, chatOutcome>>
    /\ UNCHANGED <<clientVars, promptVars, jobVars>>

\* _sendMessage, from the return (or throw) of _makeRequest on
sendMessageReturns ==
    /\ cur.entry = "sendMessage"
    /\ LET s == cur.session IN
         \/ \E rep \in ChatReplies :
              /\ heap' = [heap EXCEPT ![chat[s].history] = pushContent(@, rep)]
              /\ chatOutcome' = sendResult(rep, cur.options)
              /\ chat' = [chat EXCEPT ![s].sent =
                            Append(@, sendResult(rep, cur.options).kind)]
         \/ \E e \in ChatRequestErrors :
              /\ chatOutcome' = Throw(e)
              /\ chat' = [chat EXCEPT ![s].sent = Append(@, "throw")]
              /\ UNCHANGED heap
    /\ cur' = NoOperation
    /\ request' = NoRequest
    /\ UNCHANGED held
    /\ UNCHANGED <<clientVars, promptVars, jobVars>>

\* getHistory(): return this.history
getHistory ==
    /\ cur = NoOperation
    /\ \E s \in Sessions :
         /\ chat[s].started
         /\ held' = held \cup {chat[s].history}
    /\ UNCHANGED <<heap, chat, cur, request, chatOutcome>>
    /\ UNCHANGED <<clientVars, promptVars, jobVars>>

\* The caller empties an array it holds (array.length = 0).
CallerEmptiesArray ==
    /\ cur = NoOperation
    /\ \E a \in held :
         /\ heap[a] # <<>>
         /\ heap' = [heap EXCEPT ![a] = <<>>]
    /\ UNCHANGED <<chat, held, cur, request, chatOutcome>>
    /\ UNCHANGED <<clientVars, promptVars, jobVars>>

\* chat.clearHistory(): the class has no such method, the call throws
clearHistoryOf(s) ==
    /\ cur = NoOperation
    /\ chat[s].started
    /\ chatOutcome' = Throw(JsError("TypeError", "clearHistory is not a function"))
    /\ UNCHANGED <<heap, chat, held, cur, request>>
    /\ UNCHANGED <<clientVars, promptVars, jobVars>>

clearHistory == \E s \in Sessions : clearHistoryOf(s)

\* prompt(text, options), up to the call of _makeRequest
prompt ==
    /\ cur = NoOperation
    /\ \E text \in Texts, o \in SendOptions :
         /\ request' = promptRequest(text, o)
         /\ cur' = [entry |-> "prompt", session |-> 0, options |-> o,
                    inputs |-> <<>>, payloads |-> <<>>]
    /\ UNCHANGED <<heap, chat, held, chatOutcome>>
    /\ UNCHANGED <<clientVars, promptVars, jobVars>>

\* prompt, from the return (or throw) of _makeRequest on
promptReturns ==
    /\ cur.entry = "prompt"
    /\ \/ \E rep \in ChatReplies :
            chatOutcome' = promptResult(rep, cur.options)
       \/ \E e \in ChatRequestErrors :
            chatOutcome' = Throw(e)
    /\ cur' = NoOperation
    /\ request' = NoRequest
    /\ UNCHANGED <<heap, chat, held>>
    /\ UNCHANGED <<clientVars, promptVars, jobVars>>

InitChat ==
    /\ pc = "idle"
    /\ op = "none"
    /\ attempt = 0
    /\ lastError = NoError
    /\ trace = <<>>
    /\ result = NoResult
    /\ loopResult = NoLoopResult
    /\ remote = {}
    /\ uploadUrl = ""
    /\ names = <<>>
    /\ idx = 0
    /\ success = <<>>
    /\ failed = <<>>
    /\ PromptIdle
    /\ ChatIdle
    /\ JobsIdle

NextChat ==
    \/ startChat
    \/ sendMessage
    \/ sendMessageReturns
    \/ getHistory
    \/ CallerEmptiesArray
    \/ clearHistory

SpecChat == InitChat /\ [][NextChat]_vars

\* The one-shot prompts of the facade, which no chat session takes part in.
NextOneShot ==
    \/ prompt
    \/ promptReturns

SpecOneShot == InitChat /\ [][NextOneShot]_vars

(***************************************************************************)
(* The job queue: addJob and the executions of processJobs the trigger     *)
(* starts.  Every call of the properties service or of ScriptApp is one    *)
(* step, so that executions interleave between their reads and writes.     *)
(***************************************************************************)
\* getMaxConcurrentJobs(): the property, or 1 when it is unset
getMaxConcurrentJobs(value) == IF value = 0 THEN 1 ELSE value

\* Mutant of availableSlots: the running set is not counted.
availableSlotsIgnoringRunning(maxConcurrent, running) == maxConcurrent

\* const availableSlots = maxConcurrent - runningJobs.length
availableSlots(maxConcurrent, running) == maxConcurrent - Len(running)

Smaller(a, b) == IF a < b THEN a ELSE b

\* jobsToProcess.map(j => j.id)
JobIds(jobs) == [i \in 1..Len(jobs) |-> jobs[i].id]

\* currentRunning.filter(id => id !== job.id)
WithoutId(ids, id) == SelectSeq(ids, LAMBDA x : x # id)

\* the entry addFailedJob gets for a job whose handler threw or is missing
FailedEntry(job) ==
    [jobId |-> job.id, type |-> job.type, handler |-> job.handler,
     data |-> job.data,
     error |-> "e.toString()"]

\* Mutant of CurrentJob: the jobs taken are run from the last to the first.
CurrentJobFromBack(p) ==
    exec[p].jobsToProcess[Len(exec[p].jobsToProcess) + 1 - exec[p].k]

\* The job the forEach of execution p is at.
CurrentJob(p) == exec[p].jobsToProcess[exec[p].k]

\* The members a caller may leave out of a job.
MissingMembers == {"none", "id", "type", "handler"}

\* The job without the member (the job itself for "none").
Lacking(job, member) ==
    CASE member = "id"      -> [job EXCEPT !.id = 0]
      [] member = "type"    -> [job EXCEPT !.type = ""]
      [] member = "handler" -> [job EXCEPT !.handler = ""]
      [] OTHER              -> job

\* !(!job.id || !job.type || !job.handler)
IsValidJob(job) == ~(job.id = 0 \/ job.type = "" \/ job.handler = "")

\* Mutant of FirstInvalid: the first job of the batch is not validated.
FirstInvalidAfterFirst(jobs) ==
    IF \E i \in 2..Len(jobs) : ~IsValidJob(jobs[i])
    THEN CHOOSE i \in 2..Len(jobs) :
             /\ ~IsValidJob(jobs[i])
             /\ \A j \in 2..(i - 1) : IsValidJob(jobs[j])
    ELSE 0

\* jobs.forEach((job, index) => { if (!job.id || ...) throw ... }): the
\* position of the job the validation throws at, 0 when all are valid.
FirstInvalid(jobs) ==
    IF \E i \in 1..Len(jobs) : ~IsValidJob(jobs[i])
    THEN CHOOSE i \in 1..Len(jobs) :
             /\ ~IsValidJob(jobs[i])
             /\ \A j \in 1..(i - 1) : IsValidJob(jobs[j])
    ELSE 0

\* addJob(job): the validation throws, or queue.push({...});
\* saveJobQueue(queue); startProcessingJobs() creates the trigger unless one
\* exists; return job.id
addJobOf(job) ==
    /\ IF ~IsValidJob(job)
       THEN /\ addOutcome' =
                  AddThrow("Job must have id, type, and handler properties", -1)
            /\ UNCHANGED <<jobQueue, added, trigger>>
       ELSE /\ jobQueue' = Append(jobQueue, QueueEntry(job))
            /\ added' = added + 1
            /\ trigger' = TRUE
            /\ addOutcome' = AddReturn(<<job.id>>)
    /\ UNCHANGED <<runningJobs, failedJobs, maxConcurrentJobs, exec, runs>>
    /\ UNCHANGED <<clientVars, promptVars, chatVars>>

\* addJob called with a well-formed job.
addJob ==
    /\ added < MaxJobs
    /\ \E h \in Handlers : addJobOf(JobArg(added + 1, "task", h))

\* addJob called with any job, well-formed or lacking a member.
addJobAny ==
    /\ added < MaxJobs
    /\ \E h \in Handlers, m \in MissingMembers :
         addJobOf(Lacking(JobArg(added + 1, "task", h), m))

\* addJobs(jobs): the empty array and the first invalid job throw before
\* the queue is read; otherwise every job is pushed, the queue saved once,
\* the trigger ensured and the ids returned
addJobsOf(jobs) ==
    /\ IF jobs = <<>>
       THEN /\ addOutcome' = AddThrow("Jobs must be a non-empty array", -1)
            /\ UNCHANGED <<jobQueue, added, trigger>>
       ELSE IF FirstInvalid(jobs) # 0
       THEN /\ addOutcome' =
                  AddThrow("Job at index must have id, type, and handler properties",
                           FirstInvalid(jobs) - 1)
            /\ UNCHANGED <<jobQueue, added, trigger>>
       ELSE /\ jobQueue' =
                  jobQueue \o [i \in 1..Len(jobs) |-> QueueEntry(jobs[i])]
            /\ added' = added + Len(jobs)
            /\ trigger' = TRUE
            /\ addOutcome' = AddReturn(JobIds(jobs))
    /\ UNCHANGED <<runningJobs, failedJobs, maxConcurrentJobs, exec, runs>>
    /\ UNCHANGED <<clientVars, promptVars, chatVars>>

addJobs ==
    \E n \in 0..MaxJobs :
        /\ added + n <= MaxJobs
        /\ \E hs \in [1..n -> Handlers], ms \in [1..n -> MissingMembers] :
             addJobsOf([i \in 1..n |->
                           Lacking(JobArg(added + i, "task", hs[i]), ms[i])])

\* The trigger starts an execution of processJobs:
\* const runningJobs = getRunningJobs()
processJobs(p) ==
    /\ trigger
    /\ exec[p].pc = "idle"
    /\ exec' = [exec EXCEPT ![p].pc = "getJobQueue", ![p].runningJobs = runningJobs]
    /\ UNCHANGED <<jobQueue, runningJobs, failedJobs, maxConcurrentJobs, trigger,
                   added, runs>>
    /\ UNCHANGED <<clientVars, promptVars, chatVars, addOutcome>>

\* const queue = getJobQueue(), and what processJobs decides from what it
\* read: stop the trigger, return, or queue.splice(0, availableSlots)
getJobQueue(p) ==
    /\ exec[p].pc = "getJobQueue"
    /\ LET running == exec[p].runningJobs
           slots == availableSlots(getMaxConcurrentJobs(maxConcurrentJobs), running)
           taken == SubSeq(jobQueue, 1, Smaller(slots, Len(jobQueue)))
           rest == SubSeq(jobQueue, Len(taken) + 1, Len(jobQueue))
       IN exec' = [exec EXCEPT ![p] =
              IF jobQueue = <<>> /\ running = <<>>
              THEN [NoExecution EXCEPT !.pc = "stopProcessingJobs"]
              ELSE IF slots <= 0 \/ taken = <<>>
              THEN NoExecution
              ELSE [@ EXCEPT !.pc = "setRunningJobs", !.queue = rest,
                             !.jobsToProcess = taken, !.k = 1]]
    /\ UNCHANGED <<jobQueue, runningJobs, failedJobs, maxConcurrentJobs, trigger,
                   added, runs>>
    /\ UNCHANGED <<clientVars, promptVars, chatVars, addOutcome>>

\* stopProcessingJobs(); return
stopProcessingJobs(p) ==
    /\ exec[p].pc = "stopProcessingJobs"
    /\ trigger' = FALSE
    /\ exec' = [exec EXCEPT ![p] = NoExecution]
    /\ UNCHANGED <<jobQueue, runningJobs, failedJobs, maxConcurrentJobs,
                   added, runs>>
    /\ UNCHANGED <<clientVars, promptVars, chatVars, addOutcome>>

\* setRunningJobs([...runningJobs, ...jobsToProcess.map(j => j.id)])
setRunningJobs(p) ==
    /\ exec[p].pc = "setRunningJobs"
    /\ runningJobs' = exec[p].runningJobs \o JobIds(exec[p].jobsToProcess)
    /\ exec' = [exec EXCEPT ![p].pc = "saveJobQueue"]
    /\ UNCHANGED <<jobQueue, failedJobs, maxConcurrentJobs, trigger,
                   added, runs>>
    /\ UNCHANGED <<clientVars, promptVars, chatVars, addOutcome>>

\* saveJobQueue(queue)
saveJobQueue(p) ==
    /\ exec[p].pc = "saveJobQueue"
    /\ jobQueue' = exec[p].queue
    /\ exec' = [exec EXCEPT ![p].pc = "handler"]
    /\ UNCHANGED <<runningJobs, failedJobs, maxConcurrentJobs, trigger,
                   added, runs>>
    /\ UNCHANGED <<clientVars, promptVars, chatVars, addOutcome>>

\* try { this[job.handler](job) ... } : the handler returns, throws, or is
\* not found
runHandler(p) ==
    /\ exec[p].pc = "handler"
    /\ runs' = IF CurrentJob(p).handler = "work"
                THEN [runs EXCEPT ![CurrentJob(p).id].returned = @ + 1]
                ELSE [runs EXCEPT ![CurrentJob(p).id].failed = @ + 1]
    /\ exec' = [exec EXCEPT ![p].pc =
                   IF CurrentJob(p).handler = "work"
                   THEN "finallyGet" ELSE "getFailedJobs"]
    /\ UNCHANGED <<jobQueue, runningJobs, failedJobs, maxConcurrentJobs, trigger,
                   added>>
    /\ UNCHANGED <<clientVars, promptVars, chatVars, addOutcome>>

\* catch: addFailedJob: const failedJobs = getFailedJobs()
getFailedJobs(p) ==
    /\ exec[p].pc = "getFailedJobs"
    /\ exec' = [exec EXCEPT ![p].pc = "saveFailedJobs", ![p].failedJobs = failedJobs]
    /\ UNCHANGED <<jobQueue, runningJobs, failedJobs, maxConcurrentJobs, trigger,
                   added, runs>>
    /\ UNCHANGED <<clientVars, promptVars, chatVars, addOutcome>>

\* addFailedJob: failedJobs.push(failedJob); saveFailedJobs(failedJobs)
saveFailedJobs(p) ==
    /\ exec[p].pc = "saveFailedJobs"
    /\ failedJobs' = Append(exec[p].failedJobs, FailedEntry(CurrentJob(p)))
    /\ exec' = [exec EXCEPT ![p].pc = "finallyGet", ![p].failedJobs = <<>>]
    /\ UNCHANGED <<jobQueue, runningJobs, maxConcurrentJobs, trigger,
                   added, runs>>
    /\ UNCHANGED <<clientVars, promptVars, chatVars, addOutcome>>

\* finally: const currentRunning = getRunningJobs()
finallyGet(p) ==
    /\ exec[p].pc = "finallyGet"
    /\ exec' = [exec EXCEPT ![p].pc = "finallySet", ![p].currentRunning = runningJobs]
    /\ UNCHANGED <<jobQueue, runningJobs, failedJobs, maxConcurrentJobs, trigger,
                   added, runs>>
    /\ UNCHANGED <<clientVars, promptVars, chatVars, addOutcome>>

\* finally: setRunningJobs(currentRunning.filter(id => id !== job.id)); the
\* forEach goes on to the next job, or processJobs returns
finallySet(p) ==
    /\ exec[p].pc = "finallySet"
    /\ runningJobs' = WithoutId(exec[p].currentRunning, CurrentJob(p).id)
    /\ exec' = [exec EXCEPT ![p] =
                   IF exec[p].k = Len(exec[p].jobsToProcess)
                   THEN NoExecution
                   ELSE [@ EXCEPT !.pc = "handler", !.k = @ + 1,
                                  !.currentRunning = <<>>]]
    /\ UNCHANGED <<jobQueue, failedJobs, maxConcurrentJobs, trigger,
                   added, runs>>
    /\ UNCHANGED <<clientVars, promptVars, chatVars, addOutcome>>

\* The steps of one execution of processJobs.
Execution(p) ==
    \/ processJobs(p)
    \/ getJobQueue(p)
    \/ stopProcessingJobs(p)
    \/ setRunningJobs(p)
    \/ saveJobQueue(p)
    \/ runHandler(p)
    \/ getFailedJobs(p)
    \/ saveFailedJobs(p)
    \/ finallyGet(p)
    \/ finallySet(p)

InitJobs ==
    /\ pc = "idle"
    /\ op = "none"
    /\ attempt = 0
    /\ lastError = NoError
    /\ trace = <<>>
    /\ result = NoResult
    /\ loopResult = NoLoopResult
    /\ remote = {}
    /\ uploadUrl = ""
    /\ names = <<>>
    /\ idx = 0
    /\ success = <<>>
    /\ failed = <<>>
    /\ PromptIdle
    /\ ChatIdle
    /\ jobQueue = <<>>
    /\ runningJobs = <<>>
    /\ failedJobs = <<>>
    /\ maxConcurrentJobs \in MaxConcurrentValues
    /\ trigger = FALSE
    /\ exec = [p \in Executions |-> NoExecution]
    /\ added = 0
    /\ runs = [i \in 1..MaxJobs |-> [returned |-> 0, failed |-> 0]]
    /\ addOutcome = NoAddOutcome

NextJobs ==
    \/ addJob
    \/ \E p \in Executions : Execution(p)

\* The trigger fires every minute while it exists, and an execution that
\* has started runs on.
SpecJobs ==
    /\ InitJobs
    /\ [][NextJobs]_vars
    /\ \A p \in Executions : WF_vars(Execution(p))

(***************************************************************************)
(* A chat send with file inputs, the generation call running attempt by    *)
(* attempt: sendMessageWithImage / sendMessageWithFile, _sendMessage and   *)
(* the loop of _makeRequest.                                               *)
(***************************************************************************)
\* What _prepareFilePart does with one input: it returns a part, or throws
\* the validation error (a URL without mimeType), the API error of a Drive
\* file that cannot be read, or the error of uploadFromUrl.
ResolutionOutcomes == {"part", "validation", "drive", "upload"}

\* The file inputs of a send, by what resolving each of them will give: two
\* inputs that resolve, a single input that fails validation, and a second
\* input that fails after the first one was resolved (and uploaded).
InputResolutions ==
    { <<"part", "part">>, <<"validation">>, <<"part", "drive">>,
      <<"part", "upload">> }

ResolutionError(res) ==
    CASE res = "validation" ->
           GeminiAppValidationError(<<Seg("mimeType is required", 0, "")>>)
      [] res = "drive" ->
           GeminiAppApiError(<<Seg("Cannot access Google Drive file", 0, "")>>,
                             403, NullPayload)
      [] OTHER ->
           GeminiAppApiError(<<Seg("Failed to fetch file from URL", 0, "")>>,
                             0, NullPayload)

\* Mutant of FirstUnresolved: a failed resolution is skipped.
FirstUnresolvedSkipped(outs) == 0

\* file.forEach((f, index) => { .. this.ai._prepareFilePart(..) .. }): the
\* position of the first input whose resolution throws, 0 when none does.
FirstUnresolved(outs) ==
    IF \E i \in 1..Len(outs) : outs[i] # "part"
    THEN CHOOSE i \in 1..Len(outs) :
             /\ outs[i] # "part"
             /\ \A j \in 1..(i - 1) : outs[j] = "part"
    ELSE 0

\* const parts = [{ text: text }]; parts.push(filePart) for each input
MessageParts(text, outs) == <<text>> \o [i \in 1..Len(outs) |-> "fileData"]

\* Mutant of RequestPayload: a retry sends the body without its contents.
RequestPayloadEmptiedOnRetry(body, k) ==
    [form |-> "json", of |-> IF k = 0 THEN body ELSE [body EXCEPT !.contents = <<>>]]

\* payload: JSON.stringify(body), made once before the loop and sent by the
\* attempt with counter k
RequestPayload(body, k) == [form |-> "json", of |-> body]

\* sendMessageWithImage / sendMessageWithFile (the same code but for the
\* type handed to _prepareFilePart), called without options: the inputs are
\* resolved in order, then _sendMessage pushes the user turn, builds the
\* request and calls _makeRequest
sendMessageWithFile ==
    /\ cur = NoOperation
    /\ \E s \in Sessions, outs \in InputResolutions :
           LET o == NoOperation.options
               text == "hi"
               pushed == Append(History(s), Turn("user", MessageParts(text, outs)))
           IN
           /\ chat[s].started
           /\ SendsSoFar < MaxSends
           /\ IF FirstUnresolved(outs) # 0
              THEN /\ chatOutcome' = Throw(ResolutionError(outs[FirstUnresolved(outs)]))
                   /\ chat' = [chat EXCEPT ![s].sent = Append(@, "throw")]
                   /\ UNCHANGED <<heap, request, cur>>
              ELSE /\ heap' = [heap EXCEPT ![chat[s].history] = pushed]
                   /\ request' = chatRequest(pushed, chat[s].systemInstruction, o)
                   /\ cur' = [entry |-> "sendMessage", session |-> s, options |-> o,
                              inputs |-> outs, payloads |-> <<>>]
                   /\ UNCHANGED <<chat, chatOutcome>>
    /\ attempt' = 0
    /\ lastError' = NoError
    /\ loopResult' = NoLoopResult
    /\ UNCHANGED <<held, pc, op, trace, result, remote, callVars>>
    /\ UNCHANGED <<promptVars, jobVars>>

\* The answers to an attempt of the generation call of a send: a success,
\* a 200 that is not JSON, a client error, a server error, no connection.
SendOutcomes ==
    { Http(200, "okjson", ""), Http(200, "text", ""), Http(404, "errjson", ""),
      Http(503, "errjson", ""), ConnectionFailure }

\* One iteration of the loop of _makeRequest as _sendMessage calls it, with
\* the throw that follows the loop when the iteration was the last one.
makeRequestOfSend ==
    /\ cur.entry = "sendMessage"
    /\ loopResult = NoLoopResult
    /\ LoopContinues(attempt)
    /\ cur' = [cur EXCEPT !.payloads = Append(@, RequestPayload(request, attempt))]
    /\ \E o \in SendOutcomes :
         CASE makeRequestBranch(o) = "return" ->
                /\ loopResult' = LoopReturn(o)
                /\ UNCHANGED <<attempt, lastError>>
           [] makeRequestBranch(o) = "throw" ->
                /\ loopResult' = LoopThrow(makeRequestNonRetryable(o))
                /\ UNCHANGED <<attempt, lastError>>
           [] OTHER ->
                /\ lastError' = makeRequestLastError(o)
                /\ attempt' = attempt + 1
                /\ loopResult' =
                       IF LoopContinues(attempt + 1)
                       THEN NoLoopResult
                       ELSE LoopThrow(makeRequestExhausted(makeRequestLastError(o)))
    /\ UNCHANGED <<heap, chat, held, request, chatOutcome>>
    /\ UNCHANGED <<pc, op, trace, result, remote, callVars>>
    /\ UNCHANGED <<promptVars, jobVars>>

\* _sendMessage after _makeRequest: its error goes to the caller, or the
\* content of the first candidate is pushed and the response formatted
sendMessageEnds ==
    /\ cur.entry = "sendMessage"
    /\ loopResult # NoLoopResult
    /\ LET s == cur.session IN
         IF loopResult.kind = "throw"
         THEN /\ chatOutcome' = Throw(loopResult.error)
              /\ chat' = [chat EXCEPT ![s].sent = Append(@, "throw")]
              /\ UNCHANGED heap
         ELSE \E rep \in ChatReplies :
              /\ heap' = [heap EXCEPT ![chat[s].history] = pushContent(@, rep)]
              /\ chatOutcome' = sendResult(rep, cur.options)
              /\ chat' = [chat EXCEPT ![s].sent =
                            Append(@, sendResult(rep, cur.options).kind)]
    /\ cur' = NoOperation
    /\ request' = NoRequest
    /\ attempt' = 0
    /\ lastError' = NoError
    /\ loopResult' = NoLoopResult
    /\ UNCHANGED <<held, pc, op, trace, result, remote, callVars>>
    /\ UNCHANGED <<promptVars, jobVars>>

NextSend ==
    \/ startChat
    \/ sendMessageWithFile
    \/ makeRequestOfSend
    \/ sendMessageEnds

SpecSend == InitChat /\ [][NextSend]_vars

\* The queue used by one script: calls of addJob and addJobs with any
\* argument, and one execution of processJobs at a time.
NextQueue ==
    \/ addJobAny
    \/ addJobs
    \/ Execution(1)

SpecQueue == InitJobs /\ [][NextQueue]_vars

(***************************************************************************)
(* Reading the trace.                                                      *)
(***************************************************************************)
\* Entry points whose first request goes through a retry loop.
RetryOps == {"generateContent", "getFile", "listFiles"} \cup UploadEntries

LoopEndpoints == {"generateContent", "files.get", "files.list", "upload/files"}

IsLoopFetch(ev) == ev.e = "fetch" /\ ev.url.ep \in LoopEndpoints

IsLoopEvent(ev) == ev.e = "sleep" \/ IsLoopFetch(ev)

\* The fetches of the retry loop, and its fetches and sleeps, in order.
LoopFetches == SelectSeq(trace, IsLoopFetch)

LoopEvents == SelectSeq(trace, IsLoopEvent)

IsSleep(ev) == ev.e = "sleep"

\* The durations of the sleeps of the call, in order.
SleepsOf(t) == [i \in 1..Len(SelectSeq(t, IsSleep)) |-> SelectSeq(t, IsSleep)[i].ms]

\* A retryable failure: 429, any 5xx, or a connection failure.
TransientFailure(o) ==
    \/ o.kind = "exception"
    \/ o.kind = "http" /\ (o.status = 429 \/ (o.status >= 500 /\ o.status <= 599))

\* A 4xx status other than 429.
ClientError(o) ==
    o.kind = "http" /\ o.status >= 400 /\ o.status <= 499 /\ o.status # 429

\* 1 s, 2 s, 4 s, 8 s, 16 s, in milliseconds.
Waits == <<1000, 2000, 4000, 8000, 16000>>

InLoop == pc \in {"makeRequest", "makeRequestWithRetry"}

\* The retry loop ended by throwing its "Request failed after N retries".
Exhausted ==
    /\ loopResult.kind = "throw"
    /\ loopResult.error.message[1].tag = "Request failed after retries"

(***************************************************************************)
(* C1. Retry success: when the first j attempts (j < 5) are answered with  *)
(* a retryable failure and the next one with 200, the loop makes exactly   *)
(* j + 1 attempts, sleeps 1 s, 2 s, .., 2^(j-1) s between them, and        *)
(* returns the 200 response.  Stated for both retry loops; the generate    *)
(* path breaks it when the body of the 200 is not JSON.                    *)
(***************************************************************************)
C1_RetrySuccess ==
    op \in RetryOps =>
        \A j \in 0..4 :
            LET F == LoopFetches IN
            ( /\ Len(F) >= j + 1
              /\ \A i \in 1..j : TransientFailure(F[i].resp)
              /\ F[j + 1].resp.kind = "http"
              /\ F[j + 1].resp.status = 200 )
            => /\ Len(F) = j + 1
               /\ SleepsOf(LoopEvents) = SubSeq(Waits, 1, j)
               /\ loopResult = LoopReturn(F[j + 1].resp)

(***************************************************************************)
(* C2. Retry exhaustion and termination: no call makes a 6th attempt; a    *)
(* call whose attempts are all answered with a retryable failure is still  *)
(* running before its 5th attempt and has raised the exhaustion API error  *)
(* right after it; a loop that is running can always make its next         *)
(* attempt; and a loop that ended ended with success, with the exhaustion  *)
(* error after 5 attempts, or right at a non-retryable answer.             *)
(***************************************************************************)
C2_RetryExhaustion ==
    op \in RetryOps =>
        LET F == LoopFetches
            n == Len(F)
        IN
        /\ n <= 5
        /\ InLoop => (attempt < 5 /\ n = attempt /\ loopResult.kind = "none")
        /\ (n >= 1 /\ \A i \in 1..n : TransientFailure(F[i].resp)) =>
               IF n = 5
               THEN /\ Exhausted
                    /\ loopResult.error.name = "GeminiAppApiError"
                    /\ ~InLoop
               ELSE InLoop
        /\ loopResult.kind # "none" =>
               \/ /\ loopResult.kind = "return"
                  /\ loopResult.resp = F[n].resp
                  /\ ~TransientFailure(F[n].resp)
               \/ Exhausted /\ n = 5
               \/ /\ loopResult.kind = "throw"
                  /\ ~Exhausted
                  /\ F[n].resp.kind = "http"
                  /\ ~TransientFailure(F[n].resp)
                  /\ loopResult.error.statusCode = F[n].resp.status

\* Five attempts of generateContent, all answered 503, and the error raised.
C2_Witness ==
    /\ op = "generateContent"
    /\ pc = "done"
    /\ Len(LoopFetches) = 5
    /\ \A i \in 1..5 : LoopFetches[i].resp.status = 503
    /\ result.kind = "throw"

(***************************************************************************)
(* C3. Non-retryable short-circuit: an attempt answered with a 4xx other   *)
(* than 429 is the last event of the loop (no sleep, no further attempt);  *)
(* the generate path has raised an API error carrying that status, the     *)
(* file-manager path has returned that response.                           *)
(***************************************************************************)
C3_NonRetryable ==
    op \in RetryOps =>
        LET E == LoopEvents IN
        \A i \in 1..Len(E) :
            (IsLoopFetch(E[i]) /\ ClientError(E[i].resp)) =>
                /\ i = Len(E)
                /\ IF op = "generateContent"
                   THEN /\ loopResult.kind = "throw"
                        /\ loopResult.error.name = "GeminiAppApiError"
                        /\ loopResult.error.statusCode = E[i].resp.status
                        /\ result = Throw(loopResult.error)
                   ELSE loopResult = LoopReturn(E[i].resp)

\* A 404 on the first attempt of getFile: one fetch, no sleep, call over.
C3_Witness ==
    /\ op = "getFile"
    /\ pc = "done"
    /\ Len(trace) = 1
    /\ trace[1].resp.status = 404

(***************************************************************************)
(* C4. Backoff schedule (as claimed): the sleep after attempt k is 2^k s,  *)
(* and every sleep is followed by another attempt of the same call: none   *)
(* is performed after the final attempt.                                   *)
(***************************************************************************)
C4_BackoffBetweenAttempts ==
    op \in RetryOps =>
        LET E == LoopEvents IN
        /\ SleepsOf(E) = SubSeq(Waits, 1, Len(SleepsOf(E)))
        /\ \A i \in 1..Len(E) :
               IsSleep(E[i]) =>
                   \/ i < Len(E) /\ IsLoopFetch(E[i + 1])
                   \/ i = Len(E) /\ InLoop

(***************************************************************************)
(* C4 (amended). The sleep after failed attempt k (0-indexed) is 2^k s;    *)
(* each sleep directly follows an attempt; every sleep but the one after   *)
(* the 5th attempt is followed by another attempt; the 5th attempt, when   *)
(* it fails, is followed by a sleep of 16 s and then by the exhaustion     *)
(* error.                                                                  *)
(***************************************************************************)
C4_BackoffAfterEachFailure ==
    op \in RetryOps =>
        LET E == LoopEvents IN
        /\ SleepsOf(E) = SubSeq(Waits, 1, Len(SleepsOf(E)))
        /\ \A i \in 1..Len(E) :
               IsSleep(E[i]) =>
                   /\ i > 1 /\ IsLoopFetch(E[i - 1])
                   /\ \/ i < Len(E) /\ IsLoopFetch(E[i + 1])
                      \/ i = Len(E) /\ InLoop
                      \/ i = Len(E) /\ Exhausted /\ E[i].ms = 16000
                                    /\ Len(LoopFetches) = 5
        /\ Exhausted => (Len(E) = 10 /\ E[10] = Sleep(16000))

\* The generate path exhausted: the last event is the sleep of 16 s.
C4_Witness ==
    /\ op = "generateContent"
    /\ Exhausted
    /\ SleepsOf(trace) = Waits
    /\ trace[Len(trace)] = Sleep(16000)

(***************************************************************************)
(* C5. The exhaustion error wraps the last failure: the status code and    *)
(* body of the last attempt when it was an HTTP answer, the exception when *)
(* it was a transport exception.                                           *)
(***************************************************************************)
C5_ExhaustionCarriesLast ==
    (op \in RetryOps /\ Exhausted) =>
        LET last == LoopFetches[Len(LoopFetches)].resp
            err == loopResult.error
        IN
        IF last.kind = "http"
        THEN err.statusCode = last.status /\ err.response.of = last.body
        ELSE \E k \in 1..Len(err.message) : err.message[k].detail = last.body

(***************************************************************************)
(* C6. Retry on every network call (as claimed): on each request to the    *)
(* remote service, the first retryable failure is followed by a backoff    *)
(* sleep and a further attempt at the same URL, not by the end of the      *)
(* call.                                                                   *)
(***************************************************************************)
RemoteEndpoints == LoopEndpoints \cup {"upload", "files.delete"}

\* trace[i] is a fetch answered with a retryable failure, the first fetch of
\* the call to its endpoint in the set eps.
FirstFailureAt(i, eps) ==
    /\ trace[i].e = "fetch"
    /\ trace[i].url.ep \in eps
    /\ TransientFailure(trace[i].resp)
    /\ \A j \in 1..(i - 1) : trace[j].e = "fetch" => trace[j].url # trace[i].url

\* After trace[i] comes a sleep, and the call does not end without a further
\* fetch of the same URL.
RetriedAfter(i) ==
    /\ i < Len(trace)
    /\ IsSleep(trace[i + 1])
    /\ pc = "done" =>
           \E j \in (i + 1)..Len(trace) :
               trace[j].e = "fetch" /\ trace[j].url = trace[i].url

StartSucceeded ==
    /\ loopResult.kind = "return"
    /\ loopResult.resp.status = 200
    /\ loopResult.resp.header # ""

C7_TwoPhaseOrder ==
    op \in UploadEntries =>
        /\ \A i \in 1..Len(trace) :
               (trace[i].e = "fetch" /\ trace[i].url.ep \notin LoopEndpoints) =>
                   /\ i > 1
                   /\ i = Len(trace)
                   /\ trace[i - 1].e = "fetch"
                   /\ trace[i - 1].url = StartUrl
                   /\ trace[i - 1].resp.kind = "http"
                   /\ trace[i - 1].resp.status = 200
                   /\ trace[i - 1].resp.header # ""
                   /\ trace[i].url = Url("upload", trace[i - 1].resp.header)
        /\ (loopResult.kind # "none" /\ ~StartSucceeded) =>
               /\ pc = "done"
               /\ result.kind = "throw"
               /\ result.cause.name = "GeminiAppApiError"
               /\ \A i \in 1..Len(trace) : trace[i].url.ep \in LoopEndpoints \cup {""}
        /\ StartSucceeded =>
               \/ pc = "finalize" /\ uploadUrl = loopResult.resp.header
               \/ /\ pc = "done"
                  /\ trace[Len(trace)].url = Url("upload", loopResult.resp.header)
        /\ pc = "finalize" => StartSucceeded

\* The start request answered 200 with upload URL u2 on its second attempt,
\* and the bytes were posted to u2.
C7_Witness ==
    /\ op \in UploadEntries
    /\ pc = "done"
    /\ Len(trace) = 4
    /\ trace[3].resp.header = "u2"
    /\ trace[4].url = Url("upload", "u2")

(***************************************************************************)
(* C8. The caller of every upload entry point receives, when the           *)
(* upload+finalize request answers a status other than 200, an API error   *)
(* carrying that status and the body, and on success the file resource.    *)
(***************************************************************************)
C8_FinalizeOutcomeReachesCaller ==
    ( /\ op \in UploadEntries
      /\ pc = "done"
      /\ Len(trace) > 0
      /\ trace[Len(trace)].url.ep = "upload"
      /\ trace[Len(trace)].resp.kind = "http" )
    => LET o == trace[Len(trace)].resp IN
       IF o.status # 200
       THEN /\ result.kind = "throw"
            /\ result.error.name = "GeminiAppApiError"
            /\ result.error.statusCode = o.status
            /\ result.error.response.of = o.body
       ELSE IsJson(o.body) => result.kind = "return"

(***************************************************************************)
(* C9. Idempotent delete: deleteFile answered "not found" (404) does not   *)
(* throw and reports success; a deleteFile that reported success leaves    *)
(* the file absent; and two deletes of the same file that the remote       *)
(* service answers without a failure both report success.                  *)
(***************************************************************************)
IsFetch(ev) == ev.e = "fetch"

Answered(o) == o.kind = "http" /\ o.status \in {200, 204, 404}

Range(q) == {q[i] : i \in 1..Len(q)}

C9_IdempotentDelete ==
    /\ (op = "deleteFile" /\ pc = "done") =>
           LET o == trace[1].resp IN
           /\ (o.kind = "http" /\ o.status = 404) =>
                  /\ result.kind = "return"
                  /\ result.value.success
                  /\ result.value.alreadyDeleted
           /\ result.kind = "return" => CleanFileName(names[1]) \notin remote
    /\ op = "deleteFiles" =>
           LET DF == SelectSeq(trace, IsFetch) IN
           /\ \A i \in 1..Len(DF) :
                  (DF[i].resp.kind = "http" /\ DF[i].resp.status = 404) =>
                      names[i] \in Range(success)
           /\ \A i, j \in 1..Len(DF) :
                  ( /\ i < j
                    /\ CleanFileName(names[i]) = CleanFileName(names[j])
                    /\ Answered(DF[i].resp)
                    /\ Answered(DF[j].resp) )
                  => /\ names[i] \in Range(success)
                     /\ names[j] \in Range(success)
                     /\ (j = i + 1 => DF[j].resp.status = 404)

\* The same file deleted twice in a row: done, then not found; both in the
\* success list.
C9_Witness ==
    /\ op = "deleteFiles"
    /\ pc = "done"
    /\ Len(names) = 2
    /\ CleanFileName(names[1]) = CleanFileName(names[2])
    /\ trace[1].resp.status = 200
    /\ trace[Len(trace)].resp.status = 404
    /\ Len(success) = 2
    /\ failed = <<>>

(***************************************************************************)
(* C10. Bulk deletion never aborts: deleteFiles sends one delete per name, *)
(* in input order, whatever the earlier ones gave; each name goes to the   *)
(* success list when its delete returned and to the failed list when it    *)
(* threw, so on return |success| + |failed| = |names|; and deleteFiles     *)
(* returns, it never throws.                                               *)
(***************************************************************************)
RECURSIVE NamesWhere(_, _, _)
NamesWhere(ns, fs, ok) ==
    IF fs = <<>> THEN <<>>
    ELSE (IF Answered(Head(fs).resp) = ok THEN <<Head(ns)>> ELSE <<>>)
             \o NamesWhere(Tail(ns), Tail(fs), ok)

C10_BulkDeleteNeverAborts ==
    op = "deleteFiles" =>
        LET DF == SelectSeq(trace, IsFetch) IN
        /\ pc \in {"deleteFiles", "done"}
        /\ Len(DF) = idx
        /\ idx <= Len(names)
        /\ \A i \in 1..idx : DF[i].url = DeleteUrl(names[i])
        /\ Len(success) + Len(failed) = idx
        /\ success = NamesWhere(names, DF, TRUE)
        /\ [i \in 1..Len(failed) |-> failed[i].fileName] = NamesWhere(names, DF, FALSE)
        /\ pc = "deleteFiles" => idx < Len(names)
        /\ pc = "done" =>
               /\ idx = Len(names)
               /\ result.kind = "return"
               /\ result.value.success = success
               /\ result.value.failed = failed

\* The first delete failed, the second was still sent and succeeded.
C10_Witness ==
    /\ op = "deleteFiles"
    /\ pc = "done"
    /\ Len(names) = 2
    /\ ~Answered(trace[1].resp)
    /\ Len(failed) = 1
    /\ Len(success) = 1

(***************************************************************************)
(* C11. Bulk deletion pauses between calls: in deleteFiles, between any    *)
(* two consecutive delete requests there is a pause, whether the earlier   *)
(* of the two deletes succeeded or failed.  The code sleeps inside the     *)
(* try, after results.success.push: a delete that throws is followed by    *)
(* the next request at once.                                               *)
(***************************************************************************)
C11_PauseBetweenDeletes ==
    op = "deleteFiles" =>
        \A i \in 1..Len(trace), j \in 1..Len(trace) :
            ( /\ i < j
              /\ IsFetch(trace[i])
              /\ IsFetch(trace[j]) )
            => \E k \in (i + 1)..(j - 1) : IsSleep(trace[k])

(***************************************************************************)
(* Reading a prompt.                                                       *)
(***************************************************************************)
UploadedKinds == {"url", "doc"}

\* promptWithFile has resolved every element of its file argument.
Resolved ==
    /\ call.entry = "promptWithFile"
    /\ step \in {"generate", "done"}
    /\ index = Len(call.files)

\* The positions k of calls at which the collaborator c is called for the
\* input element at index i.
CallsOf(c, i) == {k \in 1..Len(calls) : calls[k].c = c /\ calls[k].at = i}

\* The calls made for the input element at index i.
CallsFor(i) ==
    {k \in 1..Len(calls) : calls[k].c # "generateContent" /\ calls[k].at = i}

\* _makeRequest returned a response and _formatResponse has run on it.
Formatted ==
    /\ step = "done"
    /\ Len(calls) > 0
    /\ calls[Len(calls)].c = "generateContent"
    /\ outcome.error \notin RequestErrors

\* The template of the error the prompt threw, "returned" if it returned.
OutcomeTag ==
    IF outcome.kind = "throw" THEN outcome.error.message[1].tag ELSE "returned"

NonEmptyText(t) == t # ""

\* The in-order concatenation of the text parts of the first candidate.
FirstCandidateText == SelectSeq(reply.candidates[1].texts, NonEmptyText)

\* The response passes the checks that come before the text is read.
ReachesText ==
    /\ Formatted
    /\ reply.blockReason = ""
    /\ reply.has
    /\ Len(reply.candidates) > 0
    /\ reply.candidates[1].finishReason
           \in {"", "STOP", "MAX_TOKENS", "FINISH_REASON_UNSPECIFIED"}

(***************************************************************************)
(* C12. Array resolution: when promptWithFile has resolved its n inputs,   *)
(* there are exactly n file parts, part i made from input i: a local       *)
(* payload gives an inline-data part and a pre-uploaded reference a        *)
(* file-reference part with its own uri, both without any call; a remote   *)
(* URL or an identifier gives a file-reference part of an uploaded file    *)
(* after exactly one upload.  Uploads happen in input order, and at no     *)
(* time has an upload been made for a local payload or a reference.        *)
(***************************************************************************)
C12_ArrayResolution ==
    call.entry = "promptWithFile" =>
        /\ \A k \in 1..Len(calls) :
               calls[k].c = "upload" =>
                   call.files[calls[k].at + 1].kind \in UploadedKinds
        /\ \A k \in 1..Len(calls), l \in 1..Len(calls) :
               (k < l /\ calls[l].c # "generateContent") => calls[k].at <= calls[l].at
        /\ Resolved =>
            /\ Len(parts) = Len(call.files)
            /\ \A i \in 1..Len(call.files) :
                LET f == call.files[i]
                    q == parts[i]
                IN
                /\ q.from = i - 1
                /\ f.kind = "blob" =>
                       /\ q.t = "inlineData"
                       /\ q.mimeType = f.mimeType
                       /\ CallsFor(i - 1) = {}
                /\ f.kind = "ref" =>
                       /\ q.t = "fileData"
                       /\ q.uri = f.uri
                       /\ q.mimeType = f.mimeType
                       /\ CallsFor(i - 1) = {}
                /\ f.kind \in UploadedKinds =>
                       /\ q.t = "fileData"
                       /\ q.uri.src = "upload"
                       /\ Cardinality(CallsOf("upload", i - 1)) = 1

\* A local payload, a remote URL and a pre-uploaded reference, in this
\* order, were resolved and the prompt returned.
C12_Witness ==
    /\ Resolved
    /\ call.isArray
    /\ Len(call.files) = 3
    /\ call.files[1].kind = "blob"
    /\ call.files[2].kind = "url"
    /\ call.files[3].kind = "ref"
    /\ Len(parts) = 3
    /\ Cardinality({k \in 1..Len(calls) : calls[k].c = "upload"}) = 1
    /\ step = "done"
    /\ outcome.kind = "return"

(***************************************************************************)
(* C13. A remote URL without a MIME type raises a Validation Error before  *)
(* any network call of the operation: when the prompt has thrown a         *)
(* Validation Error, it has made no call (no document-store access, no     *)
(* fetch, no upload) for any element.  The code checks the MIME type of    *)
(* an element only when its turn comes in the forEach, after the elements  *)
(* before it were resolved, uploads included.                              *)
(***************************************************************************)
C13_ValidationBeforeAnyCall ==
    (step = "done" /\ outcome.error.name = "GeminiAppValidationError")
        => calls = <<>>

(***************************************************************************)
(* C14. Positional MIME pairing: with an array of inputs and an array of   *)
(* MIME types, a remote-URL element is uploaded only with the MIME type    *)
(* at its own position; when that entry is missing or null no upload is    *)
(* made for it, and once its turn has come the prompt has thrown a         *)
(* Validation Error.  The code falls back to options.mimeType, which here  *)
(* is the array itself.                                                    *)
(***************************************************************************)
C14_PositionalMime ==
    ( /\ call.entry = "promptWithFile"
      /\ call.isArray
      /\ call.mimeType.form = "array" )
    => \A i \in 0..(Len(call.files) - 1) :
        LET entry == IF i + 1 > Len(call.mimeType.v) THEN "null"
                     ELSE call.mimeType.v[i + 1]
        IN
        call.files[i + 1].kind = "url" =>
            /\ \A k \in CallsOf("upload", i) :
                   entry # "null" /\ calls[k].mimeType = Str(entry)
            /\ (entry = "null" /\ (index > i \/ (index = i /\ step = "done")))
                   => /\ step = "done"
                      /\ index = i
                      /\ outcome.error.name = "GeminiAppValidationError"

(***************************************************************************)
(* C15. Document-identifier path: for an input that is a document          *)
(* identifier or a document-store URL naming an office document, an        *)
(* export to PDF (getAs application/pdf) is made before the upload and     *)
(* the upload carries the PDF; the part is a file reference; no MIME type  *)
(* is asked of the caller.  On this path the code calls uploadDriveFile,   *)
(* which takes file.getBlob() as it comes and never asks for an export.    *)
(***************************************************************************)
C15_ExportBeforeUpload ==
    call.entry = "promptWithFile" =>
        \A k \in 1..Len(calls) :
            ( /\ calls[k].c = "upload"
              /\ call.files[calls[k].at + 1].kind = "doc"
              /\ \E g \in CallsOf("DriveApp.getFileById", calls[k].at) :
                     calls[g].mimeType = Str(OfficeDocument) )
            => /\ \E x \in CallsOf("getAs", calls[k].at) :
                      x < k /\ calls[x].mimeType = Str("application/pdf")
               /\ calls[k].mimeType = Str("application/pdf")

(***************************************************************************)
(* C16. Block handling: a response with a block reason makes the prompt    *)
(* throw a GeminiAppApiError whose message contains the block reason,      *)
(* with or without a schema, whatever candidates the response has.         *)
(***************************************************************************)
C16_BlockedRaises ==
    (Formatted /\ reply.blockReason # "") =>
        /\ outcome.kind = "throw"
        /\ outcome.error.name = "GeminiAppApiError"
        /\ \E k \in 1..Len(outcome.error.message) :
               outcome.error.message[k].detail = reply.blockReason

\* A blocked response that also has a candidate with a JSON text and an
\* accepted finish reason, under a schema.
C16_Witness ==
    /\ Formatted
    /\ reply.blockReason = "SAFETY"
    /\ call.schema
    /\ Len(reply.candidates) > 0
    /\ reply.candidates[1].finishReason = "STOP"
    /\ reply.candidates[1].texts = <<LBrace, Num, RBrace>>
    /\ outcome.kind = "throw"

(***************************************************************************)
(* C17. Interpretation order: block indication, then absence of            *)
(* candidates, then finish reason, then text/JSON; the error thrown is     *)
(* that of the earliest step that fails, and a response without            *)
(* candidates and without block indication throws the 'no candidates'      *)
(* GeminiAppApiError.                                                      *)
(***************************************************************************)
C17_InterpretationOrder ==
    Formatted =>
        CASE reply.blockReason # "" ->
               OutcomeTag = "Response was blocked"
          [] ~reply.has \/ Len(reply.candidates) = 0 ->
               /\ OutcomeTag = "No response candidates returned"
               /\ outcome.error.name = "GeminiAppApiError"
          [] reply.candidates[1].finishReason
                 \notin {"", "STOP", "MAX_TOKENS", "FINISH_REASON_UNSPECIFIED"} ->
               OutcomeTag = "Response generation stopped"
          [] OTHER ->
               OutcomeTag \in {"returned", "Failed to parse JSON response"}

\* A response with a rejected finish reason whose text does not parse under
\* the schema: two error conditions, the earlier one is reported.
C17_Witness ==
    /\ Formatted
    /\ call.schema
    /\ reply.blockReason = ""
    /\ Len(reply.candidates) > 0
    /\ reply.candidates[1].finishReason = "SAFETY"
    /\ JsonParse(FirstCandidateText) = NotJson
    /\ OutcomeTag = "Response generation stopped"

(***************************************************************************)
(* C18. Finish-reason validation: the finish reason of the first           *)
(* candidate is accepted when it is STOP, MAX_TOKENS or unspecified        *)
(* (absent or FINISH_REASON_UNSPECIFIED); any other value throws a         *)
(* GeminiAppApiError naming it, and nothing is returned.  The finish       *)
(* reasons of later candidates do not matter.                              *)
(***************************************************************************)
C18_FinishReason ==
    (Formatted /\ reply.blockReason = "" /\ reply.has /\ Len(reply.candidates) > 0) =>
        LET fr == reply.candidates[1].finishReason IN
        IF fr \in {"", "STOP", "MAX_TOKENS", "FINISH_REASON_UNSPECIFIED"}
        THEN OutcomeTag # "Response generation stopped"
        ELSE /\ outcome.kind = "throw"
             /\ outcome.error.name = "GeminiAppApiError"
             /\ OutcomeTag = "Response generation stopped"
             /\ outcome.error.message[1].detail = fr

\* MAX_TOKENS on the first candidate is accepted although the second
\* candidate stopped for SAFETY.
C18_Witness ==
    /\ Formatted
    /\ Len(reply.candidates) = 2
    /\ reply.candidates[1].finishReason = "MAX_TOKENS"
    /\ reply.candidates[2].finishReason = "SAFETY"
    /\ outcome.kind = "return"

(***************************************************************************)
(* C19. Schema-constrained result: with a schema, the result is the value  *)
(* of JSON.parse on the in-order concatenation of the text parts of the    *)
(* first candidate; when that text is not JSON a GeminiAppApiError is      *)
(* thrown whose message quotes the first 200 characters of the text; the   *)
(* text itself is never returned.                                          *)
(***************************************************************************)
C19_SchemaResult ==
    /\ (Formatted /\ call.schema /\ outcome.kind = "return") =>
           outcome.value.t = "parsed"
    /\ (ReachesText /\ call.schema) =>
        LET text == FirstCandidateText IN
        IF JsonParse(text) # NotJson
        THEN /\ outcome.kind = "return"
             /\ outcome.value.t = "parsed"
             /\ outcome.value.json = JsonParse(text)
        ELSE LET quoted == Tail(outcome.error.message)
                 kept == [k \in 1..Len(quoted) |-> quoted[k].code]
             IN
             /\ outcome.kind = "throw"
             /\ outcome.error.name = "GeminiAppApiError"
             /\ OutcomeTag = "Failed to parse JSON response"
             /\ Len(quoted) <= Len(text)
             /\ \A k \in 1..Len(quoted) :
                    /\ quoted[k].detail = text[k]
                    /\ quoted[k].code <= TokLen(text[k])
                    /\ k < Len(quoted) => quoted[k].code = TokLen(text[k])
             /\ LET total == CharLen(text)
                    shown == IF quoted = <<>> THEN 0
                             ELSE CharLen(SubSeq(text, 1, Len(quoted) - 1))
                                      + quoted[Len(quoted)].code
                IN shown = IF total < 200 THEN total ELSE 200

\* A text longer than 200 characters that is not JSON: the error quotes a
\* cut prefix of it.
C19_Witness ==
    /\ ReachesText
    /\ call.schema
    /\ CharLen(FirstCandidateText) > 200
    /\ Len(FirstCandidateText) >= 2
    /\ OutcomeTag = "Failed to parse JSON response"

(***************************************************************************)
(* C20. No-schema passthrough: without a schema the result is the          *)
(* concatenated text, as a string and unparsed, even when the text is a    *)
(* JSON document; whether the result is a string or a parsed value depends *)
(* only on whether a schema was given.                                     *)
(***************************************************************************)
C20_NoSchemaPassthrough ==
    /\ (ReachesText /\ ~call.schema) =>
           /\ outcome.kind = "return"
           /\ outcome.value.t = "string"
           /\ outcome.value.text = FirstCandidateText
    /\ (Formatted /\ outcome.kind = "return") =>
           (outcome.value.t = "parsed" <=> call.schema)

\* Without a schema a text that is a JSON document came back as a string.
C20_Witness ==
    /\ ReachesText
    /\ ~call.schema
    /\ JsonParse(FirstCandidateText) # NotJson
    /\ outcome.kind = "return"
    /\ outcome.value.t = "string"

(***************************************************************************)
(* Reading a chat session.                                                 *)
(***************************************************************************)
\* A session that made its own history array and never handed it out.
Private(s) == chat[s].started /\ chat[s].history \notin held

\* Every send of session s so far returned a result.
AllSucceeded(s) == \A i \in 1..Len(chat[s].sent) : chat[s].sent[i] = "return"

\* user, model, user, model, ...
Alternates(h) ==
    \A i \in 1..Len(h) : h[i].role = IF i % 2 = 1 THEN "user" ELSE "model"

IsPrefix(a, b) == Len(a) <= Len(b) /\ SubSeq(b, 1, Len(a)) = a

Sending(s) == cur.entry = "sendMessage" /\ cur.session = s

(***************************************************************************)
(* C21  Request build with a schema: with a schema the request carries     *)
(* that schema and the structured-JSON MIME type unless the caller gives a *)
(* responseMimeType, which then replaces the default; without a schema     *)
(* neither field is set.                                                   *)
(***************************************************************************)
C21_RequestBuild ==
    cur.entry # "none" =>
        IF cur.options.schema
        THEN /\ request.responseSchema = "schema"
             /\ request.responseMimeType =
                    IF cur.options.responseMimeType # ""
                    THEN cur.options.responseMimeType
                    ELSE "application/json"
        ELSE /\ request.responseSchema = ""
             /\ request.responseMimeType = ""

(***************************************************************************)
(* C22  Chat history invariant: after N successful sends on a fresh        *)
(* session the history has exactly 2*N turns, and the roles alternate      *)
(* user, model, ... starting with user.                                    *)
(***************************************************************************)
C22_HistoryInvariant ==
    \A s \in Sessions :
        (Private(s) /\ ~Sending(s) /\ AllSucceeded(s)) =>
            /\ Len(History(s)) = 2 * Len(chat[s].sent)
            /\ Alternates(History(s))

(***************************************************************************)
(* C23  Chat history is append-only: in every step of a send, successful   *)
(* or failed, the history before the step is a prefix of the history after *)
(* it.                                                                     *)
(***************************************************************************)
C23_AppendOnly ==
    [][ (cur.entry = "sendMessage" \/ cur'.entry = "sendMessage") =>
            \A s \in Sessions :
                chat[s].started =>
                    IsPrefix(heap[chat[s].history], heap'[chat'[s].history]) ]_vars

\* A send failed after an earlier exchange had left turns in the history.
C23_Witness ==
    \E s \in Sessions :
        /\ Len(chat[s].sent) = 2
        /\ chat[s].sent[2] = "throw"
        /\ Len(History(s)) >= 3
        /\ History(s)[2].role = "model"

(***************************************************************************)
(* C24  Chat send protocol: while the generation call of a send is in      *)
(* flight the request's contents are the entire history, whose last        *)
(* element is the new user turn (no model turn has been appended yet), and *)
(* the k-th request of a fresh session holds exactly 2k-1 turns after k-1  *)
(* successful exchanges; when the call has returned the model turn is      *)
(* appended.                                                               *)
(***************************************************************************)
C24_SendProtocol ==
    \A s \in Sessions :
        Sending(s) =>
            /\ request.contents = History(s)
            /\ History(s)[Len(History(s))].role = "user"
            /\ (Private(s) /\ AllSucceeded(s)) =>
                   Len(request.contents) = 2 * (Len(chat[s].sent) + 1) - 1

(***************************************************************************)
(* C25  clearHistory() empties the session's history and keeps its system  *)
(* instruction, and every request of a session started with a system       *)
(* instruction carries it.                                                 *)
(***************************************************************************)
C25_ClearHistory ==
    /\ [][ \A s \in Sessions :
               clearHistoryOf(s) =>
                   /\ heap'[chat'[s].history] = <<>>
                   /\ chat'[s].systemInstruction = chat[s].systemInstruction ]_vars
    /\ [](\A s \in Sessions :
               Sending(s) => request.systemInstruction = chat[s].systemInstruction)

(***************************************************************************)
(* C26  Exclusive ownership of history: the history of a session changes   *)
(* only in the steps of that session's own operations.                     *)
(***************************************************************************)
C26_ExclusiveOwnership ==
    [][ \A s \in Sessions :
            (chat[s].started /\ heap'[chat'[s].history] # heap[chat[s].history]) =>
                (Sending(s) \/ (cur'.entry = "sendMessage" /\ cur'.session = s)) ]_vars

(***************************************************************************)
(* C27  One-shot equivalence: a prompt sends the same request and returns  *)
(* the same result as the first send of a fresh session without a system   *)
(* instruction, and its request holds a single turn.                       *)
(***************************************************************************)
\* The request the first send of a fresh session makes for the same input.
FirstSendRequest(turnParts, options) ==
    chatRequest(<<Turn("user", turnParts)>>, "", options)

SameResults ==
    \A rep \in ChatReplies, o \in SendOptions :
        promptResult(rep, o) = sendResult(rep, o)

C27_OneShotEquivalence ==
    cur.entry = "prompt" =>
        /\ Len(request.contents) = 1
        /\ request = FirstSendRequest(request.contents[1].parts, cur.options)
        /\ SameResults

\* As it holds: the single turn of the prompt has no role member, and the
\* prompt hands options.model to the call where a send hands no model.
C27_OneShotExceptRoleAndModel ==
    cur.entry = "prompt" =>
        /\ Len(request.contents) = 1
        /\ request.contents[1].role = ""
        /\ request.model = cur.options.model
        /\ [request EXCEPT !.contents = <<Turn("user", request.contents[1].parts)>>,
                           !.model = ""]
               = FirstSendRequest(request.contents[1].parts, cur.options)
        /\ SameResults

C27_Witness ==
    /\ cur.entry = "prompt"
    /\ cur.options.schema
    /\ cur.options.model = ""
    /\ request.contents[1].parts = <<"more">>
    /\ chatOutcome.kind = "return"

(***************************************************************************)
(* Reading the job queue.                                                  *)
(***************************************************************************)
\* The jobs execution p has taken from the queue and whose handler has not
\* finished yet.
TakenBy(p) ==
    LET jobs == exec[p].jobsToProcess
        from == IF exec[p].pc \in {"setRunningJobs", "saveJobQueue", "handler"}
                THEN exec[p].k
                ELSE exec[p].k + 1
    IN IF exec[p].pc \in {"idle", "getJobQueue", "stopProcessingJobs"}
       THEN {}
       ELSE {jobs[i].id : i \in from..Len(jobs)}

InFlight == UNION {TakenBy(p) : p \in Executions}

ConfiguredMaximum == getMaxConcurrentJobs(maxConcurrentJobs)

\* No execution of processJobs is running.
Quiet == \A p \in Executions : exec[p].pc = "idle"

\* The entries of the failed-jobs list for job id.
EntriesFor(id) == Len(SelectSeq(failedJobs, LAMBDA entry : entry.jobId = id))

IsRunning(id) == \E i \in 1..Len(runningJobs) : runningJobs[i] = id

(***************************************************************************)
(* C28  Job queue bounded concurrency: in every interleaving of            *)
(* executions of processJobs the jobs taken from the queue whose handler   *)
(* has not finished are never more than the configured maximum.            *)
(***************************************************************************)
C28_BoundedConcurrency == Cardinality(InFlight) <= ConfiguredMaximum

\* As it holds: an execution takes no more jobs than the maximum leaves
\* free beside the running set that execution read.
C28_BoundedPerExecution ==
    \A p \in Executions :
        exec[p].pc \notin {"idle", "getJobQueue", "stopProcessingJobs"} =>
            /\ Len(exec[p].runningJobs) + Len(exec[p].jobsToProcess)
                   <= ConfiguredMaximum
            /\ Cardinality(TakenBy(p)) <= ConfiguredMaximum

\* Two executions overlap, the later one having counted the job of the
\* earlier one.
C28_Witness ==
    \E p, q \in Executions :
        /\ p # q
        /\ exec[p].pc = "handler"
        /\ exec[q].pc = "handler"
        /\ exec[q].runningJobs = JobIds(exec[p].jobsToProcess)
        /\ Cardinality(InFlight) = ConfiguredMaximum

(***************************************************************************)
(* C29  Job queue trigger auto-stop: the trigger is never removed while    *)
(* the queue holds a job, and when the queue stays empty the trigger is    *)
(* eventually removed for good.                                            *)
(***************************************************************************)
C29_TriggerAutoStop ==
    /\ [][ (trigger /\ ~trigger') => jobQueue' = <<>> ]_vars
    /\ (<>[](jobQueue = <<>>)) => <>[](~trigger)

(***************************************************************************)
(* C30  Job failure tracking: when no execution is running any more, the   *)
(* failed-jobs list holds exactly one entry for every run of a handler     *)
(* that threw or was not found and none for a run that returned, no job    *)
(* that was run is left in the running set, and the jobs an execution took *)
(* before the one it is at have all been run.                              *)
(***************************************************************************)
C30_FailureTracking ==
    /\ Quiet =>
           \A id \in 1..MaxJobs :
               /\ EntriesFor(id) = runs[id].failed
               /\ (runs[id].failed + runs[id].returned > 0) => ~IsRunning(id)
    /\ \A p \in Executions :
           \A i \in 1..Len(exec[p].jobsToProcess) :
               i < exec[p].k =>
                   LET id == exec[p].jobsToProcess[i].id
                   IN runs[id].failed + runs[id].returned > 0

(***************************************************************************)
(* C31  A failed chat send leaves the history consistent: after a send     *)
(* that raised, the history has even length and alternates user, model,    *)
(* so that the next request holds neither two consecutive user turns nor a *)
(* model turn whose result was reported as an error.                       *)
(***************************************************************************)
C31_FailedSendConsistent ==
    \A s \in Sessions :
        ( /\ Private(s)
          /\ ~Sending(s)
          /\ chat[s].sent # <<>>
          /\ chat[s].sent[Len(chat[s].sent)] = "throw"
          /\ \A i \in 1..(Len(chat[s].sent) - 1) : chat[s].sent[i] = "return" ) =>
            /\ Len(History(s)) % 2 = 0
            /\ Alternates(History(s))
            /\ Len(History(s)) = 2 * (Len(chat[s].sent) - 1)

(***************************************************************************)
(* C32  In the generate path an attempt answered with HTTP 200 is the last *)
(* attempt of the call: no retry and no backoff wait follows a 200,        *)
(* whatever its body.                                                      *)
(***************************************************************************)
C32_OkIsLastAttempt ==
    op = "generateContent" =>
        \A i \in 1..Len(trace) :
            ( /\ IsLoopFetch(trace[i])
              /\ trace[i].resp.kind = "http"
              /\ trace[i].resp.status = 200 ) =>
                /\ i = Len(trace)
                /\ pc = "done"

\* How a retry loop takes the answer of one attempt: it ends the call as a
\* success or as a non-retryable failure, or it is a transient failure that
\* is waited out and retried.
PolicyOf(loop, o) ==
    IF loop = "generate"
    THEN CASE makeRequestBranch(o) = "return" -> "success"
           [] makeRequestBranch(o) = "throw"  -> "nonretryable"
           [] OTHER                           -> "transient"
    ELSE CASE makeRequestWithRetryBranch(o) \in {"network", "retry"} -> "transient"
           [] o.status >= 200 /\ o.status < 300                      -> "success"
           [] OTHER                                                  -> "nonretryable"

\* How the retry loop of the running call ended.
LoopEnding ==
    CASE loopResult.kind = "return" ->
           IF loopResult.resp.status >= 200 /\ loopResult.resp.status < 300
           THEN "success" ELSE "nonretryable"
      [] Exhausted -> "exhaustion"
      [] OTHER     -> "nonretryable"

\* The retry loop the running call does not use.
OtherLoop == IF op = "generateContent" THEN "file" ELSE "generate"

(***************************************************************************)
(* C33  The two retry loops implement the same transport policy: on the    *)
(* per-attempt outcomes of a finished call the other loop makes the same   *)
(* number of attempts with the same waits and ends the same way (success,  *)
(* non-retryable failure or exhaustion).                                   *)
(***************************************************************************)
C33_SameTransportPolicy ==
    (op \in RetryOps /\ loopResult.kind # "none") =>
        LET F == LoopFetches
            n == Len(F)
        IN /\ \A i \in 1..(n - 1) : PolicyOf(OtherLoop, F[i].resp) = "transient"
           /\ SleepsOf(LoopEvents) =
                  SubSeq(Waits, 1,
                         Cardinality({i \in 1..n :
                             PolicyOf(OtherLoop, F[i].resp) = "transient"}))
           /\ LoopEnding =
                  IF PolicyOf(OtherLoop, F[n].resp) = "transient"
                  THEN "exhaustion"
                  ELSE PolicyOf(OtherLoop, F[n].resp)
           /\ LoopEnding = "exhaustion" => n = maxRetries

\* How many times the handler of job id has been invoked.
Invocations(id) == runs[id].returned + runs[id].failed

\* Job id is in the persisted queue.
IsQueued(id) == \E i \in 1..Len(jobQueue) : jobQueue[i].id = id

\* Job id is among the jobs a running execution spliced off the queue.
IsTaken(id) ==
    \E p \in Executions :
        /\ exec[p].pc \notin {"idle", "getJobQueue", "stopProcessingJobs"}
        /\ \E i \in 1..Len(exec[p].jobsToProcess) : exec[p].jobsToProcess[i].id = id

(***************************************************************************)
(* C37  Job queue at-most-once execution: under any interleaving of addJob *)
(* calls and overlapping executions of processJobs, each read and each     *)
(* write of the queue being a step of its own, no job's handler is invoked *)
(* more than once.                                                         *)
(***************************************************************************)
C37_AtMostOnce == \A id \in 1..MaxJobs : Invocations(id) <= 1

(***************************************************************************)
(* C38  Job queue no stranded job: a job accepted by addJob is never lost  *)
(* from the queue by an overwriting save (it is queued, taken by an        *)
(* execution, or was handed to its handler), is never left in the queue    *)
(* with no trigger installed, and is eventually handed to its handler.     *)
(***************************************************************************)
C38_NoStrandedJob ==
    /\ [](\A id \in 1..added : IsQueued(id) \/ IsTaken(id) \/ Invocations(id) > 0)
    /\ [](jobQueue # <<>> => trigger)
    /\ \A id \in 1..MaxJobs : (added >= id) ~> (Invocations(id) > 0)

(***************************************************************************)
(* C39  Job queue running-set release: once every execution of processJobs *)
(* has finished the running set is empty, and a step never puts the id of  *)
(* a job whose handler has finished back into the running set.             *)
(***************************************************************************)
C39_RunningSetRelease ==
    /\ [](Quiet => runningJobs = <<>>)
    /\ [][ \A id \in 1..MaxJobs :
               (Invocations(id) > 0 /\ ~IsRunning(id) /\ ~IsTaken(id)) =>
                   ~(\E i \in 1..Len(runningJobs') : runningJobs'[i] = id) ]_vars

\* Execution p has just spliced its jobs off the queue it read.
Splices(p) == exec[p].pc = "getJobQueue" /\ exec'[p].pc = "setRunningJobs"

(***************************************************************************)
(* C36  Job queue FIFO: processJobs takes its jobs from the front of the   *)
(* persisted queue, in queue order, and within and across executions that  *)
(* run one after the other no job's handler is started before that of a    *)
(* job that was added earlier.                                             *)
(***************************************************************************)
C36_Fifo ==
    [][ /\ Splices(1) => IsPrefix(exec'[1].jobsToProcess, jobQueue)
        /\ \A id \in 1..MaxJobs :
               (Invocations(id) = 0 /\ runs'[id] # runs[id]) =>
                   \A later \in (id + 1)..MaxJobs : Invocations(later) = 0 ]_vars

\* Every job that could be added was added and handed to its handler once,
\* and no execution is running any more.
C36_Witness ==
    /\ added = MaxJobs
    /\ \A id \in 1..MaxJobs : Invocations(id) = 1
    /\ Quiet

\* The entries at the end of the queue that a step appended.
Appended == SubSeq(jobQueue', Len(jobQueue) + 1, Len(jobQueue'))

(***************************************************************************)
(* C40  addJob and addJobs are all-or-nothing on validation: a call that   *)
(* raises (a job lacks id, type or handler) leaves the persisted queue     *)
(* unchanged and creates no trigger; a call that returns has appended the  *)
(* jobs whose ids it returns, in input order, each with status 'queued',   *)
(* and has kept the queue it found.                                        *)
(***************************************************************************)
C40_AllOrNothing ==
    [][ (addOutcome' # addOutcome) =>
            IF addOutcome'.kind = "throw"
            THEN /\ jobQueue' = jobQueue
                 /\ trigger' = trigger
            ELSE /\ IsPrefix(jobQueue, jobQueue')
                 /\ JobIds(Appended) = addOutcome'.ids
                 /\ Appended # <<>>
                 /\ \A i \in 1..Len(Appended) :
                        /\ Appended[i].status = "queued"
                        /\ IsValidJob(Appended[i])
                 /\ trigger' ]_vars

\* A batch whose first job is valid and whose second is not was rejected
\* while the queue was empty and no trigger existed.
C40_Witness ==
    /\ addOutcome.kind = "throw"
    /\ addOutcome.index = 1
    /\ jobQueue = <<>>
    /\ ~trigger
    /\ added = 0

(***************************************************************************)
(* Reading a send whose generation call runs attempt by attempt.           *)
(***************************************************************************)
\* The step is an iteration of the retry loop of the send in flight.
LoopStep == cur.entry = "sendMessage" /\ cur'.entry = "sendMessage"

\* The step is a send that ended before _sendMessage was reached.
ResolutionFailed ==
    /\ cur = NoOperation
    /\ cur' = NoOperation
    /\ chat' # chat
    /\ chatOutcome'.kind = "throw"

(***************************************************************************)
(* C34  The retry transport has no side effect on client state: every      *)
(* attempt of one call sends the same request body, and the chat history   *)
(* and the session fields are the same after the retry loop as before it,  *)
(* whether the call succeeds or raises.                                    *)
(***************************************************************************)
C34_TransportFrame ==
    /\ [](\A s \in Sessions :
              Sending(s) =>
                  /\ \A i \in 1..Len(cur.payloads) :
                         /\ cur.payloads[i] = cur.payloads[1]
                         /\ cur.payloads[i].of.contents = History(s)
                  /\ History(s) = request.contents)
    /\ [][ LoopStep => UNCHANGED <<heap, chat, held, request>> ]_vars

\* The loop has made all its attempts of the second send of a session and
\* raised the exhaustion error.
C34_Witness ==
    \E s \in Sessions :
        /\ Sending(s)
        /\ Len(cur.payloads) = maxRetries
        /\ Exhausted
        /\ Len(History(s)) = 3

(***************************************************************************)
(* C35  Part resolution failure leaves the chat untouched: a send with     *)
(* image or file inputs whose resolution raises appends no turn to the     *)
(* history and sends no generation request, so a request is in flight only *)
(* when every input was resolved.                                          *)
(***************************************************************************)
C35_ResolutionFailure ==
    /\ [][ ResolutionFailed =>
               /\ heap' = heap
               /\ request' = NoRequest
               /\ cur'.payloads = <<>> ]_vars
    /\ [](\A s \in Sessions :
              Sending(s) =>
                  /\ \A i \in 1..Len(cur.inputs) : cur.inputs[i] = "part"
                  /\ Len(History(s)[Len(History(s))].parts) = 1 + Len(cur.inputs))

\* The upload of the second input of a send failed after an exchange that
\* succeeded: the history still holds the two turns of that exchange.
C35_Witness ==
    \E s \in Sessions :
        /\ cur = NoOperation
        /\ chat[s].sent = <<"return", "throw">>
        /\ chatOutcome = Throw(ResolutionError("upload"))
        /\ Len(History(s)) = 2

====
